---- MODULE Spec2Model ----
(***************************************************************************)
(* AgriHub REST backend: src/index.js (PostgreSQL flavoured handlers) and  *)
(* src/index-sqlite.js (SQLite handlers).  Each request handler is a       *)
(* sequence of steps cut at its awaits; the event loop runs one step at a  *)
(* time and requests in different slots interleave freely.                 *)
(*                                                                         *)
(* src/index.js calls `pool.query` / `pool.connect` although the file      *)
(* never declares `pool`; the handlers are modelled against the            *)
(* PostgreSQL connection pool their SQL ($1 parameters, RETURNING, BEGIN / *)
(* COMMIT / ROLLBACK on a checked-out client) is written for.              *)
(***************************************************************************)
EXTENDS Integers, Sequences, FiniteSets, TLC

VARIABLES
    variant,    \* "pg" (src/index.js) or "sqlite" (src/index-sqlite.js)
    phase,      \* startServer's position: "start", "schema", "seeded", "listening"
    now,        \* Date.now(), in milliseconds
    db,         \* the committed contents of the relational store, one field per table
    otpStore,   \* the process-wide Map phone -> {otp, userData, expiresAt}
    slots,      \* the requests in flight: each one's handler position and locals
    resp,       \* the response most recently sent (what the caller observes)
    ghost       \* history kept for stating the properties; no handler reads it

vars == <<variant, phase, now, db, otpStore, slots, resp, ghost>>

----------------------------------------------------------------------------
(* Bounds of the model *)

NSlots == 2          \* requests that may be in flight at once
MaxTicks == 2        \* clock advances explored
TickMs == 300000     \* milliseconds per clock advance
MaxEquipment == 1    \* equipment rows posted before further posts are held back
MaxProduce == 2      \* produce rows posted before further posts are held back
MaxPayments == 1     \* payment rows stored before further payments are held back
MaxOrders == 1       \* orders committed before further orders are held back
MaxLeaks == 1        \* clients leaked before further BEGIN failures are held back
PoolMax == 2         \* clients of the pool (pg's default is 10)

(* Program constants *)
OtpTtlMs == 300000        \* Date.now() + 300000
JwtTtlSec == 604800       \* expiresIn: '7d'

Slots == 1..NSlots
MaxNow == MaxTicks * TickMs

NULL == "null"       \* SQL NULL / JS undefined for an optional text value
Missing == ""        \* a falsy request field (absent or empty)
NoNumber == -1       \* undefined / NaN / SQL NULL where a number or an id is expected

Variants == {"pg", "sqlite"}
Phones == {"9000000001", "9000000002"}
Codes == {"111111", "222222"}

\* the role CHECK constraint of the users table
ValidRoles ==
    {"farmer", "equipment_provider", "input_supplier", "transport_provider",
     "consumer", "admin"}

----------------------------------------------------------------------------
(* Values *)

NoOtp == [present |-> FALSE]
NoUser == [found |-> FALSE]
NoToken == [present |-> FALSE]
NoResp == [kind |-> "none", status |-> 0, error |-> Missing]
Idle == [kind |-> "idle"]

UserRow(id, name, email, phone, role, location, verified) ==
    [found |-> TRUE, id |-> id, name |-> name, email |-> email, phone |-> phone,
     role |-> role, location |-> location, is_verified |-> verified]

\* the fixed roster seedData inserts, in insertion order
SeedRoster ==
    << [name |-> "Rajesh Kumar", phone |-> "9876543210", role |-> "farmer", location |-> "Punjab"],
       [name |-> "Priya Sharma", phone |-> "9876543211", role |-> "equipment_provider", location |-> "Haryana"],
       [name |-> "Amit Patel", phone |-> "9876543212", role |-> "consumer", location |-> "Gujarat"],
       [name |-> "Sunita Devi", phone |-> "9876543213", role |-> "input_supplier", location |-> "UP"],
       [name |-> "Admin User", phone |-> "9876543214", role |-> "admin", location |-> "Delhi"] >>

\* a DECIMAL(10,2) / REAL price or total is kept in hundredths (a payment amount in
\* thousandths, see Amounts)
\* availability_status is never bound by POST /equipment: the column's default applies
EquipmentRow(id, owner, name, type, rate, location) ==
    [id |-> id, owner_id |-> owner, name |-> name, type |-> type,
     base_rate_per_day |-> rate, location |-> location, availability_status |-> "available"]

\* organic is 1, 0 or NoNumber (NULL)
ProduceRow(id, farmer, name, category, price, stock, organic) ==
    [id |-> id, farmer_id |-> farmer, name |-> name, category |-> category,
     price_per_kg |-> price, stock_kg |-> stock, organic |-> organic]

\* the sample listings of src/index-sqlite.js: users[1] owns the equipment, users[0] the produce
SeedEquipment ==
    {EquipmentRow(1, 2, "John Deere 5310 Tractor", "tractor", 150000, "Haryana, India"),
     EquipmentRow(2, 2, "Kubota Combine Harvester", "harvester", 250000, "Haryana, India")}

SeedProduce ==
    {ProduceRow(1, 1, "Fresh Organic Tomatoes", "vegetables", 4550, 500, 1),
     ProduceRow(2, 1, "Premium Basmati Rice", "grains", 12000, 1000, 0)}

EmptyDb ==
    [schema |-> FALSE, users |-> {}, equipment |-> {}, produce |-> {}, products |-> {},
     equipment_bookings |-> {}, orders |-> {}, order_items |-> {}, payments |-> {},
     checkedOut |-> 0]        \* clients of the pool handed out and not released

NoIssue == [code |-> Missing, at |-> 0]
InitGhost ==
    [latest |-> [p \in Phones |-> NoIssue],       \* the code most recently issued per phone
     reissued |-> [p \in Phones |-> FALSE],       \* that issue replaced a live record
     consumed |-> [p \in Phones |-> FALSE],       \* a verification succeeded since that issue
     placed |-> {}]                               \* the orders committed, with their input

----------------------------------------------------------------------------
(* Persistence layer: the statements the handlers send *)

\* smallest identifier not in `used` (a fresh uuid / gen_random_uuid())
FreshId(used) ==
    CHOOSE n \in 1..(Cardinality(used) + 1) :
        n \notin used /\ \A m \in 1..(n - 1) : m \in used

UserIds(users) == {u.id : u \in users}

\* identifiers a sqlite verify-otp handler drew with uuidv4() and has not inserted yet
ReservedIds == {slots[r].userId : r \in {q \in Slots : slots[q].kind = "verify"}}

\* mutant: the table is created without UNIQUE on phone
UserInsertPhoneNotUnique(users, row) ==
    /\ row.name # NULL
    /\ row.phone # NULL
    /\ row.role \in ValidRoles
    /\ \A u \in users :
        /\ u.id # row.id
        /\ (row.email = NULL \/ u.email # row.email)

\* the users table's constraints: PRIMARY KEY, NOT NULL, UNIQUE(phone), UNIQUE(email),
\* CHECK (role IN (...))
UserInsertOk(users, row) ==
    /\ row.name # NULL
    /\ row.phone # NULL
    /\ row.role \in ValidRoles
    /\ \A u \in users :
        /\ u.id # row.id
        /\ u.phone # row.phone
        /\ (row.email = NULL \/ u.email # row.email)

\* mutant: the lookup matches on the phone alone
SelectByPhoneOnly(users, phone, email) == {u \in users : u.phone = phone}

\* SELECT id FROM users WHERE phone = ? OR email = ?   (a NULL never compares equal)
SelectByPhoneOrEmail(users, phone, email) ==
    {u \in users : u.phone = phone \/ (email # NULL /\ u.email = email)}

\* SELECT ... FROM users WHERE phone = ?
SelectByPhone(users, phone) ==
    IF \E u \in users : u.phone = phone
    THEN CHOOSE u \in users : u.phone = phone
    ELSE NoUser

\* SELECT ... FROM users WHERE id = ?
SelectById(users, id) ==
    IF \E u \in users : u.id = id
    THEN CHOOSE u \in users : u.id = id
    ELSE NoUser

----------------------------------------------------------------------------
(* Authentication module *)

\* otpStore.get(phone)
OtpGet(phone) == IF phone \in Phones THEN otpStore[phone] ELSE NoOtp

\* mutant: a record already in the store is not replaced
OtpSetKeepsFirst(store, phone, otp, userData, t) ==
    IF store[phone].present THEN store
    ELSE [store EXCEPT ![phone] =
            [present |-> TRUE, otp |-> otp, userData |-> userData, expiresAt |-> t + OtpTtlMs]]

\* otpStore.set(phone, {otp, userData, expiresAt: Date.now() + 300000})
OtpSet(store, phone, otp, userData, t) ==
    [store EXCEPT ![phone] =
        [present |-> TRUE, otp |-> otp, userData |-> userData, expiresAt |-> t + OtpTtlMs]]

\* mutant: the record is left in the store
OtpDeleteForgotten(store, phone) == store

\* otpStore.delete(phone)
OtpDelete(store, phone) == [store EXCEPT ![phone] = NoOtp]

NoUserData == [present |-> FALSE]
UserData(b) ==
    [present |-> TRUE, name |-> b.name, email |-> b.email, phone |-> b.phone,
     role |-> b.role, location |-> b.location]

\* mutant: the expiry of the record is not looked at
VerifyCheckNoExpiry(storedData, otp, t) ==
    IF ~storedData.present THEN "OTP expired or invalid"
    ELSE IF storedData.otp # otp THEN "Invalid OTP"
    ELSE "ok"

\* mutant: the record counts as expired from its last millisecond on
VerifyCheckExpiresEarly(storedData, otp, t) ==
    IF ~storedData.present \/ storedData.expiresAt <= t THEN "OTP expired or invalid"
    ELSE IF storedData.otp # otp THEN "Invalid OTP"
    ELSE "ok"

\* the checks of verify-otp that come before any database call;
\* "ok" lets the handler go on
VerifyCheck(storedData, otp, t) ==
    IF ~storedData.present \/ storedData.expiresAt < t THEN "OTP expired or invalid"
    ELSE IF storedData.otp # otp THEN "Invalid OTP"
    ELSE "ok"

\* jwt.sign({userId, phone, role}, secret, {expiresIn: '7d'})
JwtSign(user, t) ==
    [present |-> TRUE, sig |-> "server", userId |-> user.id, phone |-> user.phone,
     role |-> user.role, exp |-> (t \div 1000) + JwtTtlSec]

\* record kept with every issue of a code
NoteIssue(g, phone, otp, t) ==
    [g EXCEPT !.latest[phone] = [code |-> otp, at |-> t],
              !.reissued[phone] = g.latest[phone].code # Missing,
              !.consumed[phone] = FALSE]

Reply(kind, status, error, extra) ==
    [kind |-> kind, status |-> status, error |-> error] @@ extra

----------------------------------------------------------------------------
(* Bootstrap: startServer = initDB, then seedData, then app.listen *)

Init ==
    /\ variant \in Variants
    /\ phase = "start"
    /\ now = 0
    /\ db = EmptyDb
    /\ otpStore = [p \in Phones |-> NoOtp]
    /\ slots = [r \in Slots |-> Idle]
    /\ resp = NoResp
    /\ ghost = InitGhost

\* CREATE TABLE IF NOT EXISTS ...
initDB ==
    /\ phase = "start"
    /\ phase' = "schema"
    /\ db' = [db EXCEPT !.schema = TRUE]
    /\ UNCHANGED <<variant, now, otpStore, slots, resp, ghost>>

\* mutant: the loop stops one user short
SeedUsersButLast ==
    {UserRow(i, SeedRoster[i].name, NULL, SeedRoster[i].phone, SeedRoster[i].role,
             SeedRoster[i].location, TRUE) : i \in 1..(Len(SeedRoster) - 1)}

\* the rows the loop over the roster inserts into an empty table
SeedUsers ==
    {UserRow(i, SeedRoster[i].name, NULL, SeedRoster[i].phone, SeedRoster[i].role,
             SeedRoster[i].location, TRUE) : i \in 1..Len(SeedRoster)}

\* the first k users of the roster, in the order of the loop
SeedPrefix(k) == {u \in SeedUsers : u.id <= k}

\* seeds only when SELECT COUNT(*) FROM users is 0; src/index.js inserts the users,
\* src/index-sqlite.js the users, two equipment rows and two produce rows.  Without
\* the users table the SELECT is rejected and the catch block ends the function
seedData ==
    /\ phase = "schema"
    /\ phase' = "seeded"
    /\ db' = IF ~db.schema \/ Cardinality(db.users) > 0 THEN db
             ELSE IF variant = "pg" THEN [db EXCEPT !.users = SeedUsers]
             ELSE [db EXCEPT !.users = SeedUsers, !.equipment = SeedEquipment,
                             !.produce = SeedProduce]
    /\ UNCHANGED <<variant, now, otpStore, slots, resp, ghost>>

\* a statement of initDB is rejected (the database is not reachable yet, say): the
\* catch block of src/index.js logs the error, initDB returns and startServer goes on
initDBFails ==
    /\ variant = "pg"
    /\ phase = "start"
    /\ phase' = "schema"
    /\ UNCHANGED <<variant, now, db, otpStore, slots, resp, ghost>>

\* the INSERT after the first k users is rejected: the catch block of seedData logs the
\* error, seedData returns and startServer goes on
seedDataFails(k) ==
    /\ phase = "schema"
    /\ db.schema
    /\ Cardinality(db.users) = 0
    /\ phase' = "seeded"
    /\ db' = [db EXCEPT !.users = SeedPrefix(k)]
    /\ UNCHANGED <<variant, now, otpStore, slots, resp, ghost>>

\* the process is killed after the first k INSERTs of seedData and started again
seedDataKilled(k) ==
    /\ phase = "schema"
    /\ db.schema
    /\ Cardinality(db.users) = 0
    /\ phase' = "start"
    /\ db' = [db EXCEPT !.users = SeedPrefix(k)]
    /\ UNCHANGED <<variant, now, otpStore, slots, resp, ghost>>

\* the process ends and is started again: the database stays (an open transaction is
\* dropped with its connection), otpStore and the requests in flight are gone
Restart ==
    /\ phase # "start"
    /\ phase' = "start"
    /\ db' = [db EXCEPT !.checkedOut = 0]
    /\ otpStore' = [p \in Phones |-> NoOtp]
    /\ slots' = [r \in Slots |-> Idle]
    /\ resp' = NoResp
    /\ ghost' = [InitGhost EXCEPT !.placed = ghost.placed]
    /\ UNCHANGED <<variant, now>>

\* app.listen(PORT)
Listen ==
    /\ phase = "seeded"
    /\ phase' = "listening"
    /\ UNCHANGED <<variant, now, db, otpStore, slots, resp, ghost>>

\* time passes
Tick ==
    /\ phase = "listening"
    /\ resp = NoResp
    /\ now + TickMs <= MaxNow
    /\ now' = now + TickMs
    /\ UNCHANGED <<variant, phase, db, otpStore, slots, resp, ghost>>

\* res.json(...) / res.status(...).json(...): the response leaves the process; the
\* event loop takes its next callback only after the current one has returned
Deliver ==
    /\ resp # NoResp
    /\ resp' = NoResp
    /\ UNCHANGED <<variant, phase, now, db, otpStore, slots, ghost>>

----------------------------------------------------------------------------
(* POST /api/v1/auth/register *)

Body(name, email, phone, role) ==
    [name |-> name, email |-> email, phone |-> phone, role |-> role, location |-> "Pune"]

\* phones for which callers ask a login code
RequestOtpPhones == {"9000000001", Missing}

\* the registrations callers send: two phones sharing one email, and one without a name
RegisterBodies ==
    {Body("Asha", "asha@example.com", "9000000001", "farmer"),
     Body("Asha", "asha@example.com", "9000000002", "consumer"),
     Body(Missing, NULL, "9000000001", "farmer")}

\* what the caller presented, judged against the users table when the lookup runs
\* (not read by the handler)
RegisterFacts(b) ==
    [valid |-> b.name # Missing /\ b.phone # Missing /\ b.role # Missing,
     exists |-> \E u \in db.users : u.phone = b.phone \/ (b.email # NULL /\ u.email = b.email)]

\* the handler up to its await: field validation, then the SELECT is sent and runs
RegisterStart(r, b) ==
    /\ phase = "listening"
    /\ resp = NoResp
    /\ slots[r] = Idle
    /\ \A q \in 1..(r - 1) : slots[q] # Idle    \* a new request takes the lowest free slot
    /\ IF b.name = Missing \/ b.phone = Missing \/ b.role = Missing
       THEN /\ resp' = Reply("register", 400, "Name, phone, and role are required",
                             [phone |-> b.phone, body |-> b, g |-> RegisterFacts(b)])
            /\ UNCHANGED slots
       ELSE /\ slots' = [slots EXCEPT ![r] =
                    [kind |-> "register", pc |-> "await", body |-> b, g |-> RegisterFacts(b),
                     existingUser |-> SelectByPhoneOrEmail(db.users, b.phone, b.email) # {}]]
            /\ UNCHANGED resp
    /\ UNCHANGED <<variant, phase, now, db, otpStore, ghost>>

\* the handler after its await
RegisterCont(r) ==
    /\ resp = NoResp
    /\ slots[r].kind = "register"
    /\ slots[r].pc = "await"
    /\ LET b == slots[r].body IN
       IF ~db.schema    \* no users table: the SELECT is rejected, the catch block answers
       THEN /\ resp' = Reply("register", 500, "Internal server error",
                             [phone |-> b.phone, body |-> b, g |-> slots[r].g])
            /\ UNCHANGED <<otpStore, ghost>>
       ELSE IF slots[r].existingUser
       THEN /\ resp' = Reply("register", 400, "User already exists with this phone or email",
                             [phone |-> b.phone, body |-> b, g |-> slots[r].g])
            /\ UNCHANGED <<otpStore, ghost>>
       ELSE \E otp \in Codes :
            /\ otpStore' = OtpSet(otpStore, b.phone, otp, UserData(b), now)
            /\ ghost' = NoteIssue(ghost, b.phone, otp, now)
            /\ resp' = Reply("register", 200, Missing,
                             [phone |-> b.phone, body |-> b, g |-> slots[r].g])
    /\ slots' = [slots EXCEPT ![r] = Idle]
    /\ UNCHANGED <<variant, phase, now, db>>

----------------------------------------------------------------------------
(* POST /api/v1/auth/request-otp *)

\* sqlite: no await, the code is stored at once.
\* pg: the handler first awaits SELECT ... FROM users WHERE phone = $1 (result unused)
RequestOtpStart(r, phone) ==
    /\ phase = "listening"
    /\ resp = NoResp
    /\ slots[r] = Idle
    /\ \A q \in 1..(r - 1) : slots[q] # Idle    \* a new request takes the lowest free slot
    /\ IF phone = Missing
       THEN /\ resp' = Reply("request-otp", 400, "Phone number is required", [phone |-> phone])
            /\ UNCHANGED <<slots, otpStore, ghost>>
       ELSE IF variant = "pg"
       THEN /\ slots' = [slots EXCEPT ![r] = [kind |-> "request-otp", pc |-> "await", phone |-> phone]]
            /\ UNCHANGED <<resp, otpStore, ghost>>
       ELSE \E otp \in Codes :
            /\ otpStore' = OtpSet(otpStore, phone, otp, NoUserData, now)
            /\ ghost' = NoteIssue(ghost, phone, otp, now)
            /\ resp' = Reply("request-otp", 200, Missing, [phone |-> phone])
            /\ UNCHANGED slots
    /\ UNCHANGED <<variant, phase, now, db>>

RequestOtpCont(r) ==
    /\ resp = NoResp
    /\ slots[r].kind = "request-otp"
    /\ slots[r].pc = "await"
    /\ \E otp \in Codes :
        /\ otpStore' = OtpSet(otpStore, slots[r].phone, otp, NoUserData, now)
        /\ ghost' = NoteIssue(ghost, slots[r].phone, otp, now)
    /\ resp' = Reply("request-otp", 200, Missing, [phone |-> slots[r].phone])
    /\ slots' = [slots EXCEPT ![r] = Idle]
    /\ UNCHANGED <<variant, phase, now, db>>

----------------------------------------------------------------------------
(* POST /api/v1/auth/verify-otp *)

VerifyBodies == [phone : Phones \cup {Missing}, otp : Codes \cup {Missing}]

\* what the caller presented, judged against the history of issues (not read by the handler)
VerifyFacts(b) ==
    LET known == b.phone \in Phones
        issue == IF known THEN ghost.latest[b.phone] ELSE NoIssue
        live == known /\ issue.code # Missing
    IN  [noRecord |-> ~live,
         expired |-> live /\ now > issue.at + OtpTtlMs,
         wrong |-> live /\ b.otp # issue.code,
         consumed |-> known /\ ghost.consumed[b.phone],
         latest |-> issue.code,
         reissued |-> known /\ ghost.reissued[b.phone],
         registration |-> live /\ otpStore[b.phone].present /\ otpStore[b.phone].userData.present,
         userData |-> IF live /\ otpStore[b.phone].present
                      THEN otpStore[b.phone].userData ELSE NoUserData]

VerifyReply(status, error, b, g, token, user, created) ==
    Reply("verify", status, error,
          [body |-> b, g |-> g, token |-> token, user |-> user, created |-> created])

\* the handler up to its first await
VerifyStart(r, b) ==
    /\ phase = "listening"
    /\ resp = NoResp
    /\ slots[r] = Idle
    /\ \A q \in 1..(r - 1) : slots[q] # Idle    \* a new request takes the lowest free slot
    /\ LET g == VerifyFacts(b)
           storedData == OtpGet(b.phone)
           check == VerifyCheck(storedData, b.otp, now)
       IN
       IF b.phone = Missing \/ b.otp = Missing
       THEN /\ resp' = VerifyReply(400, "Phone and OTP are required", b, g, NoToken, NoUser, FALSE)
            /\ UNCHANGED slots
       ELSE IF check # "ok"
       THEN /\ resp' = VerifyReply(400, check, b, g, NoToken, NoUser, FALSE)
            /\ UNCHANGED slots
       ELSE /\ slots' = [slots EXCEPT ![r] =
                    [kind |-> "verify",
                     pc |-> IF storedData.userData.present THEN "insert" ELSE "select",
                     body |-> b, g |-> g, storedData |-> storedData,
                     \* sqlite draws the id with uuidv4() before the INSERT
                     userId |-> IF storedData.userData.present /\ variant = "sqlite"
                                THEN FreshId(UserIds(db.users) \cup ReservedIds) ELSE 0,
                     user |-> NoUser, created |-> FALSE]]
            /\ UNCHANGED resp
    /\ UNCHANGED <<variant, phase, now, db, otpStore, ghost>>

\* mutant: the INSERT takes the registration data from the store when it runs, not
\* from the record the handler read
NewUserRowFromStore(sl) ==
    LET cur == OtpGet(sl.body.phone)
        userData == IF cur.present /\ cur.userData.present THEN cur.userData
                    ELSE sl.storedData.userData
    IN  UserRow(IF variant = "sqlite" THEN sl.userId ELSE FreshId(UserIds(db.users)),
                userData.name, userData.email, sl.body.phone,
                userData.role, userData.location, TRUE)

\* the row the registration branch inserts
NewUserRow(sl) ==
    UserRow(IF variant = "sqlite" THEN sl.userId ELSE FreshId(UserIds(db.users)),
            sl.storedData.userData.name, sl.storedData.userData.email, sl.body.phone,
            sl.storedData.userData.role, sl.storedData.userData.location, TRUE)

\* the database runs INSERT INTO users ...; a constraint violation rejects the promise
\* and the catch block answers 500.  pg returns the row (RETURNING); sqlite reads it back
\* with SELECT ... WHERE id = ?, a second await between which and the INSERT the handler
\* touches nothing shared and whose result no other request can change (rows are never
\* updated or deleted), so the read-back is taken in the same step.
VerifyInsert(r) ==
    /\ resp = NoResp
    /\ slots[r].kind = "verify"
    /\ slots[r].pc = "insert"
    /\ LET sl == slots[r]
           row == NewUserRow(sl)
       IN
       IF UserInsertOk(db.users, row)
       THEN /\ db' = [db EXCEPT !.users = @ \cup {row}]
            /\ slots' = [slots EXCEPT ![r] =
                    [sl EXCEPT !.created = TRUE,
                               !.user = IF variant = "pg" THEN row
                                        ELSE SelectById(db.users \cup {row}, sl.userId),
                               !.pc = "cont"]]
            /\ UNCHANGED resp
       ELSE /\ resp' = VerifyReply(500, "Internal server error", sl.body, sl.g, NoToken, NoUser, FALSE)
            /\ slots' = [slots EXCEPT ![r] = Idle]
            /\ UNCHANGED db
    /\ UNCHANGED <<variant, phase, now, otpStore, ghost>>

\* the database runs the SELECT of the login branch
VerifySelect(r) ==
    /\ resp = NoResp
    /\ slots[r].kind = "verify"
    /\ slots[r].pc = "select"
    /\ slots' = [slots EXCEPT ![r] =
            [@ EXCEPT !.user = SelectByPhone(db.users, slots[r].body.phone), !.pc = "cont"]]
    /\ UNCHANGED <<variant, phase, now, db, otpStore, resp, ghost>>

\* the handler after its last await: sign the token, clear the OTP, answer
VerifyCont(r) ==
    /\ resp = NoResp
    /\ slots[r].kind = "verify"
    /\ slots[r].pc = "cont"
    /\ LET sl == slots[r] IN
       IF ~sl.user.found
       THEN /\ resp' = VerifyReply(400, "User not found", sl.body, sl.g, NoToken, NoUser, sl.created)
            /\ UNCHANGED <<otpStore, ghost>>
       ELSE /\ resp' = VerifyReply(200, Missing, sl.body, sl.g, JwtSign(sl.user, now), sl.user, sl.created)
            /\ otpStore' = OtpDelete(otpStore, sl.body.phone)
            /\ ghost' = [ghost EXCEPT !.consumed[sl.body.phone] = TRUE,
                                      !.latest[sl.body.phone] = NoIssue,
                                      !.reissued[sl.body.phone] = FALSE]
    /\ slots' = [slots EXCEPT ![r] = Idle]
    /\ UNCHANGED <<variant, phase, now, db>>

\* the INSERT or the SELECT the handler awaits is rejected for a reason other than a
\* constraint (the database cannot be reached, the file is locked): nothing is written,
\* the catch block answers 500
VerifyQueryFails(r) ==
    /\ resp = NoResp
    /\ slots[r].kind = "verify"
    /\ slots[r].pc \in {"insert", "select"}
    /\ resp' = VerifyReply(500, "Internal server error", slots[r].body, slots[r].g,
                           NoToken, NoUser, FALSE)
    /\ slots' = [slots EXCEPT ![r] = Idle]
    /\ UNCHANGED <<variant, phase, now, db, otpStore, ghost>>

\* src/index-sqlite.js: the INSERT has run (runQuery resolved, the row is committed) and
\* the SELECT ... WHERE id = ? that reads the row back is rejected: the catch block
\* answers 500, before jwt.sign and otpStore.delete
VerifyReadBackFails(r) ==
    /\ variant = "sqlite"
    /\ resp = NoResp
    /\ slots[r].kind = "verify"
    /\ slots[r].pc = "insert"
    /\ LET sl == slots[r]
           row == NewUserRow(sl)
       IN
       /\ UserInsertOk(db.users, row)
       /\ db' = [db EXCEPT !.users = @ \cup {row}]
       /\ resp' = VerifyReply(500, "Internal server error", sl.body, sl.g, NoToken, NoUser, TRUE)
    /\ slots' = [slots EXCEPT ![r] = Idle]
    /\ UNCHANGED <<variant, phase, now, otpStore, ghost>>

----------------------------------------------------------------------------
(* Access tokens and the two middlewares *)

\* a JSON Web Token as the client holds it; sig tells who produced the signature
\* ("server": signed with JWT_SECRET, "forged": another key, "malformed": not a JWT)
Token(sig, userId, phone, role, exp) ==
    [present |-> TRUE, sig |-> sig, userId |-> userId, phone |-> phone, role |-> role,
     exp |-> exp]

NoIdentity == [userId |-> 0, phone |-> Missing, role |-> Missing]

\* the decoded payload that becomes req.user
Payload(token) == [userId |-> token.userId, phone |-> token.phone, role |-> token.role]

\* req.headers['authorization']: absent, or the words that follow the first one
\* (the first word, the scheme, is never looked at)
NoHeader == [present |-> FALSE, parts |-> <<>>]
Authorization(parts) == [present |-> TRUE, parts |-> parts]

\* authHeader && authHeader.split(' ')[1]
HeaderToken(h) == IF h.present /\ Len(h.parts) >= 1 THEN h.parts[1] ELSE NoToken

\* mutant: the exp claim is not looked at
JwtVerifyNoExpiry(token, t) == token.sig = "server"

\* jwt.verify(token, secret): the token parses, its signature is the server's, and the
\* clock (in seconds) has not reached exp
JwtVerify(token, t) == token.sig = "server" /\ (t \div 1000) < token.exp

authenticateToken(h, t) ==
    LET token == HeaderToken(h) IN
    IF ~token.present
    THEN [next |-> FALSE, status |-> 401, error |-> "Access token required", user |-> NoIdentity]
    ELSE IF ~JwtVerify(token, t)
    THEN [next |-> FALSE, status |-> 403, error |-> "Invalid or expired token", user |-> NoIdentity]
    ELSE [next |-> TRUE, status |-> 0, error |-> Missing, user |-> Payload(token)]

\* mutant: every role is let through
authorizeRoleAny(roles, user) == TRUE

\* roles.includes(req.user.role)
authorizeRole(roles, user) == user.role \in roles

\* the middleware chain in front of a route: authenticateToken, then authorizeRole(roles)
\* on the routes that are declared with it (gated)
Admit(h, t, gated, roles) ==
    LET a == authenticateToken(h, t) IN
    IF ~a.next THEN a
    ELSE IF gated /\ ~authorizeRole(roles, a.user)
    THEN [next |-> FALSE, status |-> 403, error |-> "Insufficient permissions", user |-> a.user]
    ELSE a

\* what the caller presented, judged on the header itself (not read by the handlers)
TokenFacts(h, t) ==
    LET tok == IF h.present /\ h.parts # <<>> THEN h.parts[1] ELSE NoToken
    IN  [token |-> IF ~tok.present THEN "none"
                   ELSE IF tok.sig = "malformed" THEN "malformed"
                   ELSE IF tok.sig # "server" THEN "forged"
                   ELSE IF tok.exp <= t \div 1000 THEN "expired"
                   ELSE "valid",
         userId |-> IF tok.present THEN tok.userId ELSE 0,
         role |-> IF tok.present THEN tok.role ELSE Missing]

FarmerToken == Token("server", 1, "9876543210", "farmer", JwtTtlSec)
ProviderToken == Token("server", 2, "9876543211", "equipment_provider", JwtTtlSec)
ConsumerToken == Token("server", 3, "9876543212", "consumer", JwtTtlSec)
AdminToken == Token("server", 5, "9876543214", "admin", JwtTtlSec)
\* signed by the server for a user this database does not hold
StrangerToken == Token("server", 9, "9000000009", "equipment_provider", JwtTtlSec)
\* signed by the server long ago: its last valid second is 299
ExpiringToken == Token("server", 1, "9876543210", "farmer", 300)
\* signed by the server more than seven days before the process started
ExpiredToken == Token("server", 3, "9876543212", "consumer", 0)
ForgedToken == Token("forged", 2, "9876543211", "equipment_provider", JwtTtlSec)
MalformedToken == Token("malformed", 0, Missing, Missing, 0)

Bearer(tokens) == {Authorization(<<t>>) : t \in tokens}

\* Authorization headers that carry no valid token
Rejected == {NoHeader, Authorization(<<>>)} \cup Bearer({ExpiredToken, ForgedToken, MalformedToken})

ProtectedRoutes == {"dashboard", "equipment", "produce", "orders", "payments"}

NoRow == [id |-> 0]

ApiReply(route, status, error, g, row) ==
    Reply(route, status, error, [g |-> g, row |-> row])

\* identifiers drawn with uuidv4() by handlers of the kind that have not inserted yet
ReservedRowIds(kind) == {slots[r].rowId : r \in {q \in Slots : slots[q].kind = kind}}

RowIds(table) == {x.id : x \in table}

----------------------------------------------------------------------------
(* POST /api/v1/equipment and POST /api/v1/produce *)

\* the listings callers post: a complete one and one without a name
EquipmentBodies ==
    {[name |-> "Rotavator", type |-> "tiller", baseRatePerDay |-> 80000, location |-> "Pune"],
     [name |-> NULL, type |-> "tiller", baseRatePerDay |-> 80000, location |-> "Pune"]}

\* req.body of POST /produce; organic is "true" or Missing (not sent)
ProduceBody(name, category, pricePerKg, stockKg, organic) ==
    [name |-> name, category |-> category, pricePerKg |-> pricePerKg, stockKg |-> stockKg,
     organic |-> organic]

Tomatoes == ProduceBody("Tomatoes", "vegetables", 4550, 500, "true")
Rice == ProduceBody("Basmati Rice", "grains", 12000, 1000, Missing)
Nameless == ProduceBody(NULL, "grains", 12000, 1000, Missing)

\* the organic parameter of the INSERT: sqlite binds organic ? 1 : 0, pg binds the value
\* itself, NULL when it was not sent
OrganicParam(organic) ==
    IF organic = "true" THEN 1
    ELSE IF variant = "pg" /\ organic = Missing THEN NoNumber
    ELSE 0

\* REFERENCES users(id): PostgreSQL enforces it; SQLite does not (the connection never
\* sets PRAGMA foreign_keys)
UserRefOk(id) == variant = "sqlite" \/ id \in UserIds(db.users)

\* the constraints of the equipment table
EquipmentInsertOk(row) ==
    /\ row.id \notin RowIds(db.equipment)
    /\ row.name # NULL /\ row.type # NULL /\ row.base_rate_per_day # NoNumber
    /\ UserRefOk(row.owner_id)

\* the constraints of the produce table
ProduceInsertOk(row) ==
    /\ row.id \notin RowIds(db.produce)
    /\ row.name # NULL /\ row.category # NULL /\ row.price_per_kg # NoNumber
    /\ UserRefOk(row.farmer_id)

\* fewer than max rows of the table came through its POST route
Room(table, seeded, max) == Cardinality(table \ seeded) < max

\* middlewares, then the handler up to its await: the INSERT is sent
EquipmentStart(r, h, b) ==
    /\ phase = "listening"
    /\ resp = NoResp
    /\ slots[r] = Idle
    /\ \A q \in 1..(r - 1) : slots[q] # Idle    \* a new request takes the lowest free slot
    /\ LET a == Admit(h, now, TRUE, {"equipment_provider"})
           g == TokenFacts(h, now)
       IN
       IF ~a.next
       THEN /\ resp' = ApiReply("equipment", a.status, a.error, g, NoRow)
            /\ UNCHANGED slots
       ELSE /\ Room(db.equipment, SeedEquipment, MaxEquipment)
            /\ slots' = [slots EXCEPT ![r] =
                    [kind |-> "equipment", pc |-> "insert", g |-> g, user |-> a.user, body |-> b,
                     \* sqlite draws the id with uuidv4() before the INSERT
                     rowId |-> IF variant = "sqlite"
                               THEN FreshId(RowIds(db.equipment) \cup ReservedRowIds("equipment"))
                               ELSE 0,
                     row |-> NoRow]]
            /\ UNCHANGED resp
    /\ UNCHANGED <<variant, phase, now, db, otpStore, ghost>>

\* the database runs the INSERT; a constraint violation rejects the promise and the catch
\* block answers 500.  pg returns the row (RETURNING *); sqlite reads it back with
\* SELECT * ... WHERE id = ?, taken in the same step (rows are never updated or deleted)
EquipmentInsert(r) ==
    /\ resp = NoResp
    /\ slots[r].kind = "equipment"
    /\ slots[r].pc = "insert"
    /\ LET sl == slots[r]
           row == EquipmentRow(IF variant = "sqlite" THEN sl.rowId
                               ELSE FreshId(RowIds(db.equipment)),
                               sl.user.userId, sl.body.name, sl.body.type,
                               sl.body.baseRatePerDay, sl.body.location)
       IN
       IF EquipmentInsertOk(row)
       THEN /\ db' = [db EXCEPT !.equipment = @ \cup {row}]
            /\ slots' = [slots EXCEPT ![r] = [sl EXCEPT !.row = row, !.pc = "cont"]]
            /\ UNCHANGED resp
       ELSE /\ resp' = ApiReply("equipment", 500, "Internal server error", sl.g, NoRow)
            /\ slots' = [slots EXCEPT ![r] = Idle]
            /\ UNCHANGED db
    /\ UNCHANGED <<variant, phase, now, otpStore, ghost>>

\* res.status(201).json(row)
EquipmentCont(r) ==
    /\ resp = NoResp
    /\ slots[r].kind = "equipment"
    /\ slots[r].pc = "cont"
    /\ resp' = ApiReply("equipment", 201, Missing, slots[r].g, slots[r].row)
    /\ slots' = [slots EXCEPT ![r] = Idle]
    /\ UNCHANGED <<variant, phase, now, db, otpStore, ghost>>

ProduceStart(r, h, b) ==
    /\ phase = "listening"
    /\ resp = NoResp
    /\ slots[r] = Idle
    /\ \A q \in 1..(r - 1) : slots[q] # Idle    \* a new request takes the lowest free slot
    /\ LET a == Admit(h, now, TRUE, {"farmer"})
           g == TokenFacts(h, now)
       IN
       IF ~a.next
       THEN /\ resp' = ApiReply("produce", a.status, a.error, g, NoRow)
            /\ UNCHANGED slots
       ELSE /\ Room(db.produce, SeedProduce, MaxProduce)
            /\ slots' = [slots EXCEPT ![r] =
                    [kind |-> "produce", pc |-> "insert", g |-> g, user |-> a.user, body |-> b,
                     rowId |-> IF variant = "sqlite"
                               THEN FreshId(RowIds(db.produce) \cup ReservedRowIds("produce"))
                               ELSE 0,
                     row |-> NoRow]]
            /\ UNCHANGED resp
    /\ UNCHANGED <<variant, phase, now, db, otpStore, ghost>>

ProduceInsert(r) ==
    /\ resp = NoResp
    /\ slots[r].kind = "produce"
    /\ slots[r].pc = "insert"
    /\ LET sl == slots[r]
           row == ProduceRow(IF variant = "sqlite" THEN sl.rowId
                             ELSE FreshId(RowIds(db.produce)),
                             sl.user.userId, sl.body.name, sl.body.category,
                             sl.body.pricePerKg, sl.body.stockKg,
                             OrganicParam(sl.body.organic))
       IN
       IF ProduceInsertOk(row)
       THEN /\ db' = [db EXCEPT !.produce = @ \cup {row}]
            /\ slots' = [slots EXCEPT ![r] = [sl EXCEPT !.row = row, !.pc = "cont"]]
            /\ UNCHANGED resp
       ELSE /\ resp' = ApiReply("produce", 500, "Internal server error", sl.g, NoRow)
            /\ slots' = [slots EXCEPT ![r] = Idle]
            /\ UNCHANGED db
    /\ UNCHANGED <<variant, phase, now, otpStore, ghost>>

ProduceCont(r) ==
    /\ resp = NoResp
    /\ slots[r].kind = "produce"
    /\ slots[r].pc = "cont"
    /\ resp' = ApiReply("produce", 201, Missing, slots[r].g, slots[r].row)
    /\ slots' = [slots EXCEPT ![r] = Idle]
    /\ UNCHANGED <<variant, phase, now, db, otpStore, ghost>>

----------------------------------------------------------------------------
(* GET /api/v1/produce and GET /api/v1/equipment: no middleware, one SELECT *)

\* req.query of GET /produce. page and limit are the numbers their strings denote, with
\* the defaults 1 and 10 already applied; Missing is a parameter that was not sent
ProduceQuery(page, limit, category, organic) ==
    [page |-> page, limit |-> limit, category |-> category, organic |-> organic]

\* req.query of GET /equipment
EquipmentQuery(page, limit, type, location) ==
    [page |-> page, limit |-> limit, type |-> type, location |-> location]

\* const offset = (page - 1) * limit
Offset(q) == (q.page - 1) * q.limit

\* PostgreSQL rejects a negative LIMIT or OFFSET; SQLite reads a negative LIMIT as no
\* limit and a negative OFFSET as 0
PageError(q) == variant = "pg" /\ (q.limit < 0 \/ Offset(q) < 0)

\* how many of n matching rows LIMIT ? OFFSET ? lets through
PageSize(q, n) ==
    LET off == IF Offset(q) < 0 THEN 0 ELSE Offset(q)
        rest == IF n > off THEN n - off ELSE 0
    IN  IF q.limit < 0 \/ rest < q.limit THEN rest ELSE q.limit

\* ORDER BY created_at DESC LIMIT ? OFFSET ?: the model keeps no creation times (seed
\* rows and rows posted within one second tie anyway), so any rows of the right number
\* may make the page
Pages(matching, q) ==
    {page \in SUBSET matching : Cardinality(page) = PageSize(q, Cardinality(matching))}

\* organic === 'true' ? 1 : 0
OrganicFilter(organic) == IF organic = "true" THEN 1 ELSE 0

\* mutant: the WHERE clause starts from the optional filters
ProduceMatchesAnyStock(row, q) ==
    /\ row.farmer_id \in UserIds(db.users)
    /\ (q.category # Missing => row.category = q.category)
    /\ (q.organic # Missing => row.organic = OrganicFilter(q.organic))

\* JOIN users u ON p.farmer_id = u.id WHERE p.stock_kg > 0 [AND p.category = ?]
\* [AND p.organic = ?]; a NULL stock or organic flag satisfies no comparison
ProduceMatches(row, q) ==
    /\ row.farmer_id \in UserIds(db.users)
    /\ row.stock_kg # NoNumber /\ row.stock_kg > 0
    /\ (q.category # Missing => row.category = q.category)
    /\ (q.organic # Missing => row.organic = OrganicFilter(q.organic))

\* e.location [I]LIKE '%' || location || '%', on the locations and search words of the
\* model
LocationLike(location, word) ==
    <<location, word>> \in {<<"Haryana, India", "haryana">>, <<"Haryana, India", "india">>,
                            <<"Pune", "pune">>}

\* JOIN users u ON e.owner_id = u.id WHERE e.availability_status = 'available'
\* [AND e.type = ?] [AND e.location LIKE ?]
EquipmentMatches(row, q) ==
    /\ row.owner_id \in UserIds(db.users)
    /\ row.availability_status = "available"
    /\ (q.type # Missing => row.type = q.type)
    /\ (q.location # Missing => LocationLike(row.location, q.location))

ListReply(route, status, error, q, rows) ==
    Reply(route, status, error, [q |-> q, rows |-> rows])

\* the handler up to its await: the SELECT is sent
ProduceListStart(r, q) ==
    /\ phase = "listening"
    /\ resp = NoResp
    /\ slots[r] = Idle
    /\ \A p \in 1..(r - 1) : slots[p] # Idle    \* a new request takes the lowest free slot
    /\ slots' = [slots EXCEPT ![r] = [kind |-> "produce-list", pc |-> "select", q |-> q]]
    /\ UNCHANGED <<variant, phase, now, db, otpStore, resp, ghost>>

\* the database runs the SELECT and the handler sends the rows, or 500 from its catch
ProduceListCont(r) ==
    /\ resp = NoResp
    /\ slots[r].kind = "produce-list"
    /\ LET q == slots[r].q IN
       IF PageError(q)
       THEN resp' = ListReply("produce-list", 500, "Internal server error", q, {})
       ELSE \E rows \in Pages({row \in db.produce : ProduceMatches(row, q)}, q) :
                resp' = ListReply("produce-list", 200, Missing, q, rows)
    /\ slots' = [slots EXCEPT ![r] = Idle]
    /\ UNCHANGED <<variant, phase, now, db, otpStore, ghost>>

EquipmentListStart(r, q) ==
    /\ phase = "listening"
    /\ resp = NoResp
    /\ slots[r] = Idle
    /\ \A p \in 1..(r - 1) : slots[p] # Idle    \* a new request takes the lowest free slot
    /\ slots' = [slots EXCEPT ![r] = [kind |-> "equipment-list", pc |-> "select", q |-> q]]
    /\ UNCHANGED <<variant, phase, now, db, otpStore, resp, ghost>>

EquipmentListCont(r) ==
    /\ resp = NoResp
    /\ slots[r].kind = "equipment-list"
    /\ LET q == slots[r].q IN
       IF PageError(q)
       THEN resp' = ListReply("equipment-list", 500, "Internal server error", q, {})
       ELSE \E rows \in Pages({row \in db.equipment : EquipmentMatches(row, q)}, q) :
                resp' = ListReply("equipment-list", 200, Missing, q, rows)
    /\ slots' = [slots EXCEPT ![r] = Idle]
    /\ UNCHANGED <<variant, phase, now, db, otpStore, ghost>>

----------------------------------------------------------------------------
(* GET /api/v1/dashboard/stats *)

\* SELECT COUNT(*) of the role's own rows
DashboardCount(role, userId) ==
    CASE role = "farmer" -> Cardinality({p \in db.produce : p.farmer_id = userId})
      [] role = "equipment_provider" -> Cardinality({e \in db.equipment : e.owner_id = userId})
      [] role = "consumer" -> Cardinality({o \in db.orders : o.buyer_id = userId})
      [] OTHER -> 0

\* the bookings count of the farmer and equipment_provider branches
BookingsCount(role, userId) ==
    CASE role = "farmer" ->
            Cardinality({k \in db.equipment_bookings :
                            k.renter_id = userId /\ k.status = "active"})
      [] role = "equipment_provider" ->
            Cardinality({k \in db.equipment_bookings :
                            \E e \in db.equipment : e.id = k.equipment_id /\ e.owner_id = userId})
      [] OTHER -> 0

DashboardReply(status, error, g, first, second) ==
    Reply("dashboard", status, error, [g |-> g, row |-> NoRow, first |-> first, second |-> second])

\* authenticateToken, then the switch on the role: the first COUNT is sent, or (default
\* branch) the zero statistics are answered at once
DashboardStart(r, h) ==
    /\ phase = "listening"
    /\ resp = NoResp
    /\ slots[r] = Idle
    /\ \A q \in 1..(r - 1) : slots[q] # Idle    \* a new request takes the lowest free slot
    /\ LET a == Admit(h, now, FALSE, {})
           g == TokenFacts(h, now)
       IN
       IF ~a.next
       THEN /\ resp' = DashboardReply(a.status, a.error, g, 0, 0)
            /\ UNCHANGED slots
       ELSE IF a.user.role \notin {"farmer", "equipment_provider", "consumer"}
       THEN /\ resp' = DashboardReply(200, Missing, g, 0, 0)
            /\ UNCHANGED slots
       ELSE /\ slots' = [slots EXCEPT ![r] =
                    [kind |-> "dashboard", pc |-> "first", g |-> g, user |-> a.user,
                     first |-> 0, second |-> 0]]
            /\ UNCHANGED resp
    /\ UNCHANGED <<variant, phase, now, db, otpStore, ghost>>

\* the database runs the first COUNT
DashboardFirst(r) ==
    /\ resp = NoResp
    /\ slots[r].kind = "dashboard"
    /\ slots[r].pc = "first"
    /\ slots' = [slots EXCEPT ![r] =
            [@ EXCEPT !.first = DashboardCount(slots[r].user.role, slots[r].user.userId),
                      !.pc = IF slots[r].user.role = "consumer" THEN "cont" ELSE "second"]]
    /\ UNCHANGED <<variant, phase, now, db, otpStore, resp, ghost>>

\* the database runs the bookings COUNT
DashboardSecond(r) ==
    /\ resp = NoResp
    /\ slots[r].kind = "dashboard"
    /\ slots[r].pc = "second"
    /\ slots' = [slots EXCEPT ![r] =
            [@ EXCEPT !.second = BookingsCount(slots[r].user.role, slots[r].user.userId),
                      !.pc = "cont"]]
    /\ UNCHANGED <<variant, phase, now, db, otpStore, resp, ghost>>

\* res.json(stats)
DashboardCont(r) ==
    /\ resp = NoResp
    /\ slots[r].kind = "dashboard"
    /\ slots[r].pc = "cont"
    /\ resp' = DashboardReply(200, Missing, slots[r].g, slots[r].first, slots[r].second)
    /\ slots' = [slots EXCEPT ![r] = Idle]
    /\ UNCHANGED <<variant, phase, now, db, otpStore, ghost>>

----------------------------------------------------------------------------
(* POST /api/v1/payments/create-order *)

\* the amounts (in rupees) callers ask to pay
\* req.body.amount, in thousandths of a rupee: 0 and 500.000
Amounts == {0, 500000}

\* Math.round(amount * 100) of a positive amount, in paise
Paise(amount) == (amount + 5) \div 10

\* the amount as the column keeps it: DECIMAL(10,2) rounds to two places on assignment,
\* SQLite's REAL keeps the number
StoredAmount(amount) ==
    IF variant = "pg" /\ amount > 0 THEN ((amount + 5) \div 10) * 10 ELSE amount

PaymentRow(id, userId, amount, gatewayId) ==
    [id |-> id, user_id |-> userId, amount |-> StoredAmount(amount), currency |-> "INR",
     gateway_transaction_id |-> gatewayId, status |-> "pending"]

\* the constraints of the payments table
PaymentInsertOk(row) ==
    /\ row.id \notin RowIds(db.payments)
    /\ row.amount # NoNumber
    /\ UserRefOk(row.user_id)

\* authenticateToken, the amount check, the mock gateway order, then the INSERT is sent
PaymentStart(r, h, amount) ==
    /\ phase = "listening"
    /\ resp = NoResp
    /\ slots[r] = Idle
    /\ \A q \in 1..(r - 1) : slots[q] # Idle    \* a new request takes the lowest free slot
    /\ LET a == Admit(h, now, FALSE, {})
           g == TokenFacts(h, now)
       IN
       IF ~a.next
       THEN /\ resp' = ApiReply("payments", a.status, a.error, g, NoRow)
            /\ UNCHANGED slots
       ELSE IF (amount = NoNumber \/ amount = 0) \/ amount <= 0    \* !amount || amount <= 0
       THEN /\ resp' = ApiReply("payments", 400, "Valid amount is required", g, NoRow)
            /\ UNCHANGED slots
       ELSE /\ Cardinality(db.payments) < MaxPayments
            /\ slots' = [slots EXCEPT ![r] =
                    [kind |-> "payments", pc |-> "insert", g |-> g, user |-> a.user,
                     amount |-> amount,
                     \* the mock order: id order_<Date.now()>, amount in paise
                     order |-> [id |-> now, amount |-> Paise(amount), currency |-> "INR",
                                status |-> "created"],
                     rowId |-> IF variant = "sqlite"
                               THEN FreshId(RowIds(db.payments) \cup ReservedRowIds("payments"))
                               ELSE 0]]
            /\ UNCHANGED resp
    /\ UNCHANGED <<variant, phase, now, db, otpStore, ghost>>

\* the database runs the INSERT
PaymentInsert(r) ==
    /\ resp = NoResp
    /\ slots[r].kind = "payments"
    /\ slots[r].pc = "insert"
    /\ LET sl == slots[r]
           row == PaymentRow(IF variant = "sqlite" THEN sl.rowId
                             ELSE FreshId(RowIds(db.payments)),
                             sl.user.userId, sl.amount, sl.order.id)
       IN
       IF PaymentInsertOk(row)
       THEN /\ db' = [db EXCEPT !.payments = @ \cup {row}]
            /\ slots' = [slots EXCEPT ![r] = [sl EXCEPT !.pc = "cont"]]
            /\ UNCHANGED resp
       ELSE /\ resp' = ApiReply("payments", 500, "Internal server error", sl.g, NoRow)
            /\ slots' = [slots EXCEPT ![r] = Idle]
            /\ UNCHANGED db
    /\ UNCHANGED <<variant, phase, now, otpStore, ghost>>

\* res.json(order)
PaymentCont(r) ==
    /\ resp = NoResp
    /\ slots[r].kind = "payments"
    /\ slots[r].pc = "cont"
    /\ resp' = Reply("payments", 200, Missing,
                     [g |-> slots[r].g, row |-> NoRow, order |-> slots[r].order])
    /\ slots' = [slots EXCEPT ![r] = Idle]
    /\ UNCHANGED <<variant, phase, now, db, otpStore, ghost>>

----------------------------------------------------------------------------
(* POST /api/v1/orders (src/index.js only): one transaction on a pooled client *)

OrderRow(id, buyer, seller, total, address) ==
    [id |-> id, buyer_id |-> buyer, seller_id |-> seller, total_amount |-> total,
     status |-> "pending", delivery_address |-> address]

ItemRow(id, orderId, produceId, productId, quantity, unitPrice, totalPrice) ==
    [id |-> id, order_id |-> orderId, produce_id |-> produceId, product_id |-> productId,
     quantity |-> quantity, unit_price |-> unitPrice, total_price |-> totalPrice]

\* a line item of the request body
Item(type, itemId, quantity, sellerId) ==
    [type |-> type, itemId |-> itemId, quantity |-> quantity, sellerId |-> sellerId]

\* what a transaction has written and not yet committed
NoTx == [orders |-> {}, order_items |-> {}]

\* mutant: the statement commits by itself, as on a connection without BEGIN
TxInsertAutocommit(d, tx, table, row) ==
    [db |-> [d EXCEPT ![table] = @ \cup {row}], tx |-> tx]

\* INSERT on the client between BEGIN and COMMIT: the row is the transaction's own
TxInsert(d, tx, table, row) ==
    [db |-> d, tx |-> [tx EXCEPT ![table] = @ \cup {row}]]

\* UPDATE orders SET total_amount = $1 WHERE id = $2; the only row with this id is the
\* one the transaction inserted
TxUpdateTotal(tx, orderId, total) ==
    [tx EXCEPT !.orders =
        {IF o.id = orderId THEN [o EXCEPT !.total_amount = total] ELSE o : o \in @}]

\* COMMIT: everything the transaction wrote becomes visible at once
TxCommit(d, tx) ==
    [d EXCEPT !.orders = @ \cup tx.orders, !.order_items = @ \cup tx.order_items]

\* mutant: what was written stays
TxRollbackKeeps(d, tx) ==
    [d EXCEPT !.orders = @ \cup tx.orders, !.order_items = @ \cup tx.order_items]

\* ROLLBACK: what the transaction wrote is dropped
TxRollback(d, tx) == d

\* the transactions in flight
OpenTx == {slots[r].tx : r \in {q \in Slots : slots[q].kind = "orders"}}

\* gen_random_uuid() for a row of the table: unused by committed and uncommitted rows
FreshRowId(table) ==
    FreshId(RowIds(db[table]) \cup UNION {RowIds(tx[table]) : tx \in OpenTx})

\* NOT NULL on a DECIMAL(10,2) column; its range, below 10^8 units, is wider than any
\* amount (in hundredths) the prices and quantities of the model produce
NumericOk(h) == h # NoNumber

\* buyer_id / seller_id REFERENCES users(id); total_amount NOT NULL
OrderInsertOk(row) ==
    /\ row.buyer_id \in UserIds(db.users)
    /\ row.seller_id = NoNumber \/ row.seller_id \in UserIds(db.users)
    /\ NumericOk(row.total_amount)

\* mutant: unit_price is created without NOT NULL
OrderItemInsertOkPriceNullable(row) ==
    /\ row.quantity # NoNumber
    /\ row.produce_id = NoNumber \/ row.produce_id \in RowIds(db.produce)
    /\ row.product_id = NoNumber \/ row.product_id \in RowIds(db.products)

\* quantity, unit_price, total_price NOT NULL; produce_id / product_id REFERENCES.  An
\* undefined unitPrice is sent as NULL and rejected; total_price is a product of
\* JavaScript numbers, never null (NaN is a value of DECIMAL), so its NOT NULL rejects
\* nothing the handler sends
OrderItemInsertOk(row) ==
    /\ row.quantity # NoNumber
    /\ NumericOk(row.unit_price)
    /\ row.produce_id = NoNumber \/ row.produce_id \in RowIds(db.produce)
    /\ row.product_id = NoNumber \/ row.product_id \in RowIds(db.products)

\* SELECT price_per_kg FROM produce WHERE id = $1 / SELECT price_per_unit FROM products
\* WHERE id = $1: the prices of the rows found
CatalogPrices(type, itemId) ==
    IF type = "produce" THEN {p.price_per_kg : p \in {x \in db.produce : x.id = itemId}}
    ELSE {p.price_per_unit : p \in {x \in db.products : x.id = itemId}}

\* mutant: the quantity is left out
ItemTotalOfOne(unitPrice, quantity) == unitPrice

\* unitPrice * item.quantity.  The driver hands a DECIMAL(10,2) over as text ("45.50"), the
\* product coerces it to a double and the INSERT rounds the double back to two decimals:
\* on amounts in hundredths that is the integer product.  An undefined unit price gives
\* NaN, kept as no number.
ItemTotal(unitPrice, quantity) == IF unitPrice = NoNumber THEN NoNumber ELSE unitPrice * quantity

\* totalAmount += itemTotal
AddTotal(totalAmount, itemTotal) ==
    IF totalAmount = NoNumber \/ itemTotal = NoNumber THEN NoNumber ELSE totalAmount + itemTotal

\* the body of the response: {orderId, totalAmount} with 201, {error} otherwise
OrderJson(status, error, orderId, totalAmount) ==
    IF status = 201 THEN [orderId |-> orderId, totalAmount |-> totalAmount]
    ELSE [error |-> error]

\* the response with, besides its body, what the attempt was given and did (not sent):
\* the caller, the lines, the id the order row was given, the statement that was
\* rejected by a failure of the database, if any
OrderReply(status, error, sl) ==
    Reply("orders", status, error,
          [g |-> sl.g, row |-> NoRow, items |-> sl.items, orderId |-> sl.orderId,
           totalAmount |-> sl.totalAmount, fault |-> sl.fault,
           json |-> OrderJson(status, error, sl.orderId, sl.totalAmount)])

\* mutant: the catch block of the inner try goes on to COMMIT
OrderThrowCommits(sl) == [sl EXCEPT !.pc = "commit"]

\* the handler reaches the catch block of the inner try: ROLLBACK is sent
OrderThrow(sl) == [sl EXCEPT !.pc = "rollback"]

\* the loop body for line k up to its await: a produce or product line sends its price
\* lookup; any other type leaves unitPrice undefined and sends the INSERT of the line
OrderLine(sl, k) ==
    IF sl.items[k].type \in {"produce", "product"}
    THEN [sl EXCEPT !.k = k, !.pc = "lookup"]
    ELSE [sl EXCEPT !.k = k, !.pc = "insert-item", !.unitPrice = NoNumber,
                    !.itemTotal = ItemTotal(NoNumber, sl.items[k].quantity),
                    !.totalAmount = AddTotal(@, ItemTotal(NoNumber, sl.items[k].quantity))]

\* authenticateToken, then the handler up to its first await: pool.connect()
OrderStart(r, h, items) ==
    /\ variant = "pg"
    /\ phase = "listening"
    /\ resp = NoResp
    /\ slots[r] = Idle
    /\ \A q \in 1..(r - 1) : slots[q] # Idle    \* a new request takes the lowest free slot
    /\ LET a == Admit(h, now, FALSE, {})
           g == TokenFacts(h, now)
       IN
       IF ~a.next
       THEN /\ resp' = Reply("orders", a.status, a.error,
                             [g |-> g, row |-> NoRow, items |-> items, orderId |-> 0,
                              totalAmount |-> 0, fault |-> Missing,
                              json |-> OrderJson(a.status, a.error, 0, 0)])
            /\ UNCHANGED slots
       ELSE /\ Cardinality(db.orders) < MaxOrders
            /\ slots' = [slots EXCEPT ![r] =
                    [kind |-> "orders", pc |-> "connect", g |-> g, user |-> a.user,
                     items |-> items, tx |-> NoTx, orderId |-> 0, k |-> 0, fault |-> Missing,
                     unitPrice |-> NoNumber, itemTotal |-> NoNumber, totalAmount |-> 0]]
            /\ UNCHANGED resp
    /\ UNCHANGED <<variant, phase, now, db, otpStore, ghost>>

\* pool.connect() hands out a client as soon as one is free (there is no connection
\* timeout: until then the request waits in the pool's queue); BEGIN is sent
OrderConnect(r) ==
    /\ resp = NoResp
    /\ slots[r].kind = "orders"
    /\ slots[r].pc = "connect"
    /\ db.checkedOut < PoolMax
    /\ db' = [db EXCEPT !.checkedOut = @ + 1]
    /\ slots' = [slots EXCEPT ![r] = [@ EXCEPT !.pc = "begin"]]
    /\ UNCHANGED <<variant, phase, now, otpStore, resp, ghost>>

\* BEGIN runs; the handler reads items[0].sellerId (a TypeError when there is no first
\* item) and sends the INSERT of the order
OrderBegin(r) ==
    /\ resp = NoResp
    /\ slots[r].kind = "orders"
    /\ slots[r].pc = "begin"
    /\ slots' = [slots EXCEPT ![r] =
            IF Len(slots[r].items) = 0 THEN OrderThrow(slots[r])
            ELSE [slots[r] EXCEPT !.pc = "insert-order"]]
    /\ UNCHANGED <<variant, phase, now, db, otpStore, resp, ghost>>

\* INSERT INTO orders (buyer_id, seller_id, total_amount, delivery_address) ... RETURNING *
OrderInsert(r) ==
    /\ resp = NoResp
    /\ slots[r].kind = "orders"
    /\ slots[r].pc = "insert-order"
    /\ LET sl == slots[r]
           row == OrderRow(FreshRowId("orders"), sl.user.userId, sl.items[1].sellerId, 0,
                           "Sector 7")
           w == TxInsert(db, sl.tx, "orders", row)
       IN
       IF OrderInsertOk(row)
       THEN /\ db' = w.db
            /\ slots' = [slots EXCEPT ![r] =
                    OrderLine([sl EXCEPT !.tx = w.tx, !.orderId = row.id], 1)]
       ELSE /\ slots' = [slots EXCEPT ![r] = OrderThrow(sl)]
            /\ UNCHANGED db
    /\ UNCHANGED <<variant, phase, now, otpStore, resp, ghost>>

\* the price lookup of line k runs; rows[0] of an empty result is undefined and reading
\* its price throws
OrderLookup(r) ==
    /\ resp = NoResp
    /\ slots[r].kind = "orders"
    /\ slots[r].pc = "lookup"
    /\ LET sl == slots[r]
           item == sl.items[sl.k]
           prices == CatalogPrices(item.type, item.itemId)
       IN
       slots' = [slots EXCEPT ![r] =
            IF prices = {} THEN OrderThrow(sl)
            ELSE LET unitPrice == CHOOSE p \in prices : TRUE IN
                 [sl EXCEPT !.unitPrice = unitPrice,
                            !.itemTotal = ItemTotal(unitPrice, item.quantity),
                            !.totalAmount = AddTotal(@, ItemTotal(unitPrice, item.quantity)),
                            !.pc = "insert-item"]]
    /\ UNCHANGED <<variant, phase, now, db, otpStore, resp, ghost>>

\* INSERT INTO order_items ... runs; then the next line, or after the last one the UPDATE
\* of the total is sent
OrderInsertItem(r) ==
    /\ resp = NoResp
    /\ slots[r].kind = "orders"
    /\ slots[r].pc = "insert-item"
    /\ LET sl == slots[r]
           item == sl.items[sl.k]
           row == ItemRow(FreshRowId("order_items"), sl.orderId,
                          IF item.type = "produce" THEN item.itemId ELSE NoNumber,
                          IF item.type = "product" THEN item.itemId ELSE NoNumber,
                          item.quantity, sl.unitPrice, sl.itemTotal)
           w == TxInsert(db, sl.tx, "order_items", row)
       IN
       IF OrderItemInsertOk(row)
       THEN /\ db' = w.db
            /\ slots' = [slots EXCEPT ![r] =
                    IF sl.k < Len(sl.items) THEN OrderLine([sl EXCEPT !.tx = w.tx], sl.k + 1)
                    ELSE [sl EXCEPT !.tx = w.tx, !.pc = "update"]]
       ELSE /\ slots' = [slots EXCEPT ![r] = OrderThrow(sl)]
            /\ UNCHANGED db
    /\ UNCHANGED <<variant, phase, now, otpStore, resp, ghost>>

\* UPDATE orders SET total_amount = $1 WHERE id = $2 runs; COMMIT is sent
OrderUpdate(r) ==
    /\ resp = NoResp
    /\ slots[r].kind = "orders"
    /\ slots[r].pc = "update"
    /\ slots' = [slots EXCEPT ![r] =
            [@ EXCEPT !.tx = TxUpdateTotal(@, slots[r].orderId, slots[r].totalAmount),
                      !.pc = "commit"]]
    /\ UNCHANGED <<variant, phase, now, db, otpStore, resp, ghost>>

\* COMMIT runs
OrderCommit(r) ==
    /\ resp = NoResp
    /\ slots[r].kind = "orders"
    /\ slots[r].pc = "commit"
    /\ db' = TxCommit(db, slots[r].tx)
    /\ slots' = [slots EXCEPT ![r] = [@ EXCEPT !.tx = NoTx, !.pc = "cont"]]
    /\ ghost' = [ghost EXCEPT !.placed = @ \cup
                    {[id |-> slots[r].orderId, buyer |-> slots[r].g.userId,
                      items |-> slots[r].items]}]
    /\ UNCHANGED <<variant, phase, now, otpStore, resp>>

\* res.status(201).json({orderId, totalAmount}); finally: client.release()
OrderCont(r) ==
    /\ resp = NoResp
    /\ slots[r].kind = "orders"
    /\ slots[r].pc = "cont"
    /\ resp' = OrderReply(201, Missing, slots[r])
    /\ db' = [db EXCEPT !.checkedOut = @ - 1]
    /\ slots' = [slots EXCEPT ![r] = Idle]
    /\ UNCHANGED <<variant, phase, now, otpStore, ghost>>

\* ROLLBACK runs; the error is thrown on, finally releases the client and the outer
\* catch answers 500
OrderRollback(r) ==
    /\ resp = NoResp
    /\ slots[r].kind = "orders"
    /\ slots[r].pc = "rollback"
    /\ db' = [TxRollback(db, slots[r].tx) EXCEPT !.checkedOut = @ - 1]
    /\ resp' = OrderReply(500, "Internal server error", slots[r])
    /\ slots' = [slots EXCEPT ![r] = Idle]
    /\ UNCHANGED <<variant, phase, now, otpStore, ghost>>

\* pool.connect() is rejected: no client was handed out, the outer catch answers 500
OrderConnectFails(r) ==
    /\ resp = NoResp
    /\ slots[r].kind = "orders"
    /\ slots[r].pc = "connect"
    /\ resp' = OrderReply(500, "Internal server error", [slots[r] EXCEPT !.fault = "connect"])
    /\ slots' = [slots EXCEPT ![r] = Idle]
    /\ UNCHANGED <<variant, phase, now, db, otpStore, ghost>>

\* clients the pool has handed out and no handler holds any more
Leaked ==
    db.checkedOut - Cardinality({r \in Slots : slots[r].kind = "orders" /\ slots[r].pc # "connect"})

\* BEGIN is rejected.  The await stands before the inner try: neither its catch (ROLLBACK)
\* nor its finally (client.release()) runs, the outer catch answers 500
OrderBeginFails(r) ==
    /\ resp = NoResp
    /\ slots[r].kind = "orders"
    /\ slots[r].pc = "begin"
    /\ resp' = OrderReply(500, "Internal server error", [slots[r] EXCEPT !.fault = "begin"])
    /\ slots' = [slots EXCEPT ![r] = Idle]
    /\ UNCHANGED <<variant, phase, now, db, otpStore, ghost>>

\* the statement the handler awaits inside the inner try (INSERT of the order, price
\* lookup, INSERT of a line, UPDATE of the total) is rejected by a failure of the
\* database and has no effect: the catch block sends ROLLBACK
OrderQueryFails(r) ==
    /\ resp = NoResp
    /\ slots[r].kind = "orders"
    /\ slots[r].pc \in {"insert-order", "lookup", "insert-item", "update"}
    /\ slots' = [slots EXCEPT ![r] = OrderThrow([slots[r] EXCEPT !.fault = slots[r].pc])]
    /\ UNCHANGED <<variant, phase, now, db, otpStore, resp, ghost>>

\* ROLLBACK itself is rejected (the connection is gone, and with it the transaction on
\* the server): the error leaves the catch block, finally releases the client and the
\* outer catch answers 500
OrderRollbackFails(r) ==
    /\ resp = NoResp
    /\ slots[r].kind = "orders"
    /\ slots[r].pc = "rollback"
    /\ db' = [TxRollback(db, slots[r].tx) EXCEPT !.checkedOut = @ - 1]
    /\ resp' = OrderReply(500, "Internal server error", [slots[r] EXCEPT !.fault = "rollback"])
    /\ slots' = [slots EXCEPT ![r] = Idle]
    /\ UNCHANGED <<variant, phase, now, otpStore, ghost>>

----------------------------------------------------------------------------
(* The authentication requests, from a fresh start *)

BootNext == initDB \/ seedData \/ Listen

\* the steps of the authentication requests running in the slots S
AuthStep(S) ==
    \/ \E r \in S, b \in RegisterBodies : RegisterStart(r, b)
    \/ \E r \in S : RegisterCont(r)
    \/ \E r \in S, phone \in RequestOtpPhones : RequestOtpStart(r, phone)
    \/ \E r \in S : RequestOtpCont(r)
    \/ \E r \in S, b \in VerifyBodies : VerifyStart(r, b)
    \/ \E r \in S : VerifyInsert(r)
    \/ \E r \in S : VerifySelect(r)
    \/ \E r \in S : VerifyCont(r)

AuthNext == BootNext \/ Tick \/ Deliver \/ AuthStep(Slots)

\* one request at a time: every request is answered before the next one arrives
AuthSeqNext == BootNext \/ Tick \/ Deliver \/ AuthStep({1})

AuthSpec == Init /\ [][AuthNext]_vars

AuthSeqSpec == Init /\ [][AuthSeqNext]_vars

----------------------------------------------------------------------------
(* The token-protected routes *)

\* the steps of the requests in flight on the listing, dashboard and payment routes
ListingStep ==
    \/ \E r \in Slots : EquipmentInsert(r)
    \/ \E r \in Slots : EquipmentCont(r)
    \/ \E r \in Slots : ProduceInsert(r)
    \/ \E r \in Slots : ProduceCont(r)
    \/ \E r \in Slots : DashboardFirst(r)
    \/ \E r \in Slots : DashboardSecond(r)
    \/ \E r \in Slots : DashboardCont(r)
    \/ \E r \in Slots : PaymentInsert(r)
    \/ \E r \in Slots : PaymentCont(r)

\* the steps of the order transactions in flight
OrderStep ==
    \/ \E r \in Slots : OrderConnect(r)
    \/ \E r \in Slots : OrderBegin(r)
    \/ \E r \in Slots : OrderInsert(r)
    \/ \E r \in Slots : OrderLookup(r)
    \/ \E r \in Slots : OrderInsertItem(r)
    \/ \E r \in Slots : OrderUpdate(r)
    \/ \E r \in Slots : OrderCommit(r)
    \/ \E r \in Slots : OrderCont(r)
    \/ \E r \in Slots : OrderRollback(r)

\* one order of one line, for the requests that only have to get past the middleware
ApiOrders == {<<Item("produce", 1, 2, 1)>>}

ApiProduce == {Tomatoes, Nameless}

\* the headers the callers of each route send: every kind of rejected header, and the
\* tokens of the users that use the route
EquipmentCallers == Rejected \cup Bearer({ProviderToken, StrangerToken, FarmerToken, ExpiringToken})
ProduceCallers == Rejected \cup Bearer({FarmerToken, ExpiringToken, ConsumerToken})
DashboardCallers == Rejected \cup Bearer({ConsumerToken, ProviderToken, AdminToken})
PaymentCallers == Rejected \cup Bearer({ConsumerToken})
OrderCallers == Rejected \cup Bearer({ConsumerToken})

\* two listing posts, or one listing post and one request of another route, may be in
\* flight together
ApiNext ==
    \/ BootNext \/ Tick \/ Deliver
    \/ \E r \in Slots, h \in EquipmentCallers, b \in EquipmentBodies : EquipmentStart(r, h, b)
    \/ \E r \in Slots, h \in ProduceCallers, b \in ApiProduce : ProduceStart(r, h, b)
    \/ \E r \in {1}, h \in DashboardCallers : DashboardStart(r, h)
    \/ \E r \in {1}, h \in PaymentCallers, amount \in Amounts : PaymentStart(r, h, amount)
    \/ \E r \in {1}, h \in OrderCallers, items \in ApiOrders : OrderStart(r, h, items)
    \/ ListingStep
    \/ OrderStep

ApiSpec == Init /\ [][ApiNext]_vars

----------------------------------------------------------------------------
(* Orders next to the requests they depend on or that read them *)

ProduceA == Item("produce", 1, 2, 1)
ProduceB == Item("produce", 2, 1, 1)
ProductA == Item("product", 1, 1, 1)
ServiceA == Item("service", 1, 1, 1)

\* the item lists buyers send: empty, two produce lines, a produce line followed by a
\* product line, by a line of an unknown type, and by the same line again
OrderBodies ==
    {<<>>, <<ProduceA, ProduceB>>, <<ProduceA, ProductA>>, <<ProduceA, ServiceA>>,
     <<ProduceA, ProduceA>>}

OrderBuyers == Bearer({ConsumerToken, StrangerToken})

\* a farmer posts produce, a consumer reads the dashboard, buyers place orders; any two
\* of these requests may be in flight together
OrderNext ==
    \/ BootNext \/ Deliver
    \/ \E r \in Slots, b \in {Tomatoes, Rice} : ProduceStart(r, Authorization(<<FarmerToken>>), b)
    \/ \E r \in Slots : ProduceInsert(r)
    \/ \E r \in Slots : ProduceCont(r)
    \/ \E r \in Slots : DashboardStart(r, Authorization(<<ConsumerToken>>))
    \/ \E r \in Slots : DashboardFirst(r)
    \/ \E r \in Slots : DashboardCont(r)
    \/ \E r \in Slots, h \in OrderBuyers, items \in OrderBodies : OrderStart(r, h, items)
    \/ OrderStep

OrderSpec == Init /\ [][OrderNext]_vars


----------------------------------------------------------------------------
(* Properties of the authentication module *)

VerifyFailed(rp) == rp.status = 400 /\ ~rp.created /\ ~rp.token.present

\* C4: verify-otp for a phone with no OTP record, with an expired code or with an
\* incorrect code answers 400, inserts no user row and signs no token; such a request
\* never gets as far as a database call.
C4_BadOtpAlwaysFails ==
    /\ (resp.kind = "verify" /\ (resp.g.noRecord \/ resp.g.expired \/ resp.g.wrong))
           => VerifyFailed(resp)
    /\ \A r \in Slots :
           slots[r].kind = "verify"
               => ~(slots[r].g.noRecord \/ slots[r].g.expired \/ slots[r].g.wrong)

\* a correct code presented after its 5 minutes is refused
C4_Witness ==
    /\ resp.kind = "verify"
    /\ resp.g.expired /\ ~resp.g.wrong
    /\ VerifyFailed(resp)

\* C5: verify-otp with the code a registration of valid {name, phone, role} issued,
\* unexpired and not superseded, answers 200, has created the user row and returns a
\* token whose userId and role are those of the stored row.
C5_RegisterThenVerifySucceeds ==
    (/\ resp.kind = "verify"
     /\ resp.g.registration
     /\ ~(resp.g.noRecord \/ resp.g.expired \/ resp.g.wrong)
     /\ resp.g.userData.role \in ValidRoles)
    => /\ resp.status = 200
       /\ resp.created
       /\ resp.user \in db.users
       /\ resp.token.present
       /\ resp.token.userId = resp.user.id
       /\ resp.token.role = resp.user.role

\* a code is issued for phone p in this step
IssuedFor(p) ==
    /\ resp = NoResp
    /\ resp'.kind \in {"register", "request-otp"}
    /\ resp'.status = 200
    /\ resp'.phone = p

\* C6 as stated: once a second code is requested for a phone, verify-otp with the first
\* code fails.
C6_FirstCodeAlwaysFails ==
    [][\A p \in Phones :
          (IssuedFor(p) /\ otpStore[p].present)
              => VerifyCheck(otpStore'[p], otpStore[p].otp, now') # "ok"]_vars

\* C6 amended: only the code of the latest issue for a phone verifies; a superseded code
\* fails whenever its digits differ from the latest code's.
C6_OnlyLatestCodeVerifies ==
    (resp.kind = "verify" /\ resp.status = 200) => resp.body.otp = resp.g.latest

\* a verification that succeeded with the second code issued for its phone
C6_Witness ==
    /\ resp.kind = "verify"
    /\ resp.status = 200
    /\ resp.body.otp = resp.g.latest
    /\ resp.g.reissued

\* C7: a successful verify-otp leaves no OTP record for the phone, and a later verify-otp
\* for that phone (any non-empty code, so also the same one) with no code issued in
\* between answers 400 'OTP expired or invalid' without a token.
C7_OtpIsSingleUse ==
    /\ (resp.kind = "verify" /\ resp.status = 200) => ~otpStore[resp.body.phone].present
    /\ (resp.kind = "verify" /\ resp.g.consumed /\ resp.body.otp # Missing)
           => /\ resp.status = 400
              /\ resp.error = "OTP expired or invalid"
              /\ ~resp.token.present

C7_Witness ==
    /\ resp.kind = "verify"
    /\ resp.g.consumed
    /\ resp.body.otp # Missing
    /\ resp.error = "OTP expired or invalid"

\* C10: a register request with name, phone and role answers 400 when its lookup finds a
\* user with that phone or that email, and then leaves the OTP store as it was;
\* otherwise it answers 200 and has stored the pending registration data with a
\* generated code that expires in 300 s.  Neither outcome touches the users table.
RegisterOutcome ==
    (resp = NoResp /\ resp'.kind = "register" /\ resp'.g.valid)
    => /\ db' = db
       /\ IF resp'.g.exists
          THEN resp'.status = 400 /\ otpStore' = otpStore
          ELSE /\ resp'.status = 200
               /\ otpStore'[resp'.phone].present
               /\ otpStore'[resp'.phone].otp \in Codes
               /\ otpStore'[resp'.phone].userData = UserData(resp'.body)
               /\ otpStore'[resp'.phone].expiresAt = now + OtpTtlMs
               /\ \A p \in Phones \ {resp'.phone} : otpStore'[p] = otpStore[p]

C10_RegisterConflictOrPending == [][RegisterOutcome]_vars

\* a registration refused because its email belongs to a user with another phone,
\* while a code for the requested phone stays in the store
C10_Witness ==
    /\ resp.kind = "register"
    /\ resp.g.valid /\ resp.g.exists
    /\ resp.status = 400
    /\ \A u \in db.users : u.phone # resp.phone
    /\ otpStore[resp.phone].present

----------------------------------------------------------------------------
(* Properties of the middlewares *)

\* the request answered by rp was refused by authenticateToken's own terms
AuthRejected(rp) == rp.kind \in ProtectedRoutes /\ rp.g.token # "valid"

GatedRole(route) == IF route = "equipment" THEN "equipment_provider" ELSE "farmer"

\* the owner column of a listing row
OwnerOf(route, row) == IF route = "equipment" THEN row.owner_id ELSE row.farmer_id

RoleRefused ==
    \A route \in {"equipment", "produce"} :
        /\ (resp.kind = route /\ resp.g.token = "valid" /\ resp.g.role # GatedRole(route))
               => /\ resp.status = 403
                  /\ resp.error = "Insufficient permissions"
                  /\ resp.row = NoRow
        /\ \A r \in Slots : slots[r].kind = route => slots[r].g.role = GatedRole(route)
        /\ (resp.kind = route /\ resp.status = 201)
               => /\ OwnerOf(route, resp.row) = resp.g.userId
                  /\ resp.row \in db[route]

RoleRefusedStep ==
    /\ (resp = NoResp /\ resp'.kind \in {"equipment", "produce"} /\ resp'.status = 403)
           => db' = db /\ slots' = slots
    /\ \A route \in {"equipment", "produce"} :
           \A row \in db'[route] \ db[route] :
               \/ phase = "schema"
               \/ \E r \in Slots :
                      /\ slots[r].kind = route /\ slots[r].pc = "insert"
                      /\ slots'[r].kind = route /\ slots'[r].row = row
                      /\ OwnerOf(route, row) = slots[r].g.userId
                      /\ slots[r].g.role = GatedRole(route)

\* C8: POST /equipment with a valid token whose role is not equipment_provider, and
\* POST /produce with one whose role is not farmer, is answered 403 in its first step,
\* which leaves the database as it was; only requests of the route's role are ever in
\* flight behind the middleware, and every row a request adds to the two tables carries
\* the userId of the token the request presented.
C8_RoleGatedCreation == []RoleRefused /\ [][RoleRefusedStep]_vars

\* a farmer is refused on POST /equipment after a provider has posted a row
C8_Witness ==
    /\ resp.kind = "equipment"
    /\ resp.status = 403
    /\ resp.g.token = "valid"
    /\ resp.g.role = "farmer"
    /\ db.equipment \ SeedEquipment # {}

TokenChecked ==
    /\ (resp.kind \in ProtectedRoutes /\ resp.g.token = "none")
           => resp.status = 401 /\ resp.error = "Access token required"
    /\ (resp.kind \in ProtectedRoutes /\ resp.g.token \in {"malformed", "expired", "forged"})
           => resp.status = 403 /\ resp.error = "Invalid or expired token"
    /\ \A r \in Slots :
           slots[r].kind \in ProtectedRoutes
               => /\ slots[r].g.token = "valid"
                  /\ slots[r].user.userId = slots[r].g.userId
                  /\ slots[r].user.role = slots[r].g.role

TokenCheckedStep ==
    (resp = NoResp /\ AuthRejected(resp'))
        => db' = db /\ otpStore' = otpStore /\ slots' = slots

\* C9: on the five protected routes a request without a token is answered 401 and one
\* whose token is malformed, expired or signed with another key 403; the answer is given
\* in the request's first step, which leaves the database, the OTP store and the
\* requests in flight as they were; a request is in flight behind the middleware only
\* with a valid token, and req.user is the identity embedded in that token.
C9_TokenRequired == []TokenChecked /\ [][TokenCheckedStep]_vars

\* the farmer's token is refused once its last second has passed, after produce was
\* posted
C9_Witness ==
    /\ resp.kind = "produce"
    /\ resp.status = 403
    /\ resp.g.token = "expired"
    /\ resp.g.role = "farmer"
    /\ now > 0
    /\ db.produce \ SeedProduce # {}

----------------------------------------------------------------------------
(* Properties of the order transaction *)

OrderRowsOf(id) == {o \in db.orders : o.id = id}
ItemRowsOf(id) == {i \in db.order_items : i.order_id = id}

\* the line names a produce or product row the catalog does not hold
MissingRef(item) ==
    item.type \in {"produce", "product"} /\ CatalogPrices(item.type, item.itemId) = {}

PriceOf(item) ==
    IF CatalogPrices(item.type, item.itemId) = {} THEN NoNumber
    ELSE CHOOSE p \in CatalogPrices(item.type, item.itemId) : TRUE

RECURSIVE SumLines(_)
SumLines(items) ==
    IF items = <<>> THEN 0
    ELSE PriceOf(Head(items)) * Head(items).quantity + SumLines(Tail(items))

NothingPersisted(id) == id = 0 \/ (OrderRowsOf(id) = {} /\ ItemRowsOf(id) = {})

\* C1: an order attempt that got past authenticateToken ends with 201 or with 500.  With
\* 201 the order row, one item row per line of the request and the total of the lines are
\* in the database; with 500 no order row and no item row of the attempt is.  An attempt
\* one of whose lines names a produce or product id the catalog does not hold ends with
\* 500.
C1_OrderAllOrNothing ==
    (resp.kind = "orders" /\ resp.g.token = "valid")
    => /\ resp.status \in {201, 500}
       /\ resp.status = 201
              => /\ \E o \in OrderRowsOf(resp.orderId) : o.total_amount = SumLines(resp.items)
                 /\ Cardinality(ItemRowsOf(resp.orderId)) = Len(resp.items)
       /\ resp.status = 500 => NothingPersisted(resp.orderId)
       /\ (\E k \in 1..Len(resp.items) : MissingRef(resp.items[k])) => resp.status = 500

\* an attempt that had inserted the order row and its first line is rolled back because
\* its second line names a missing row
C1_Witness ==
    /\ resp.kind = "orders"
    /\ resp.status = 500
    /\ resp.orderId # 0
    /\ Len(resp.items) = 2
    /\ ~MissingRef(resp.items[1])
    /\ MissingRef(resp.items[2])
    /\ db.orders # {}

\* C2: the rows an order transaction has written are in no committed table until its
\* COMMIT has run; every order row in the committed table has its final total and all
\* its item rows with it, every committed item row has its order row, and the order
\* count a dashboard reader is given never exceeds the buyer's committed orders.
C2_NoPartialOrderVisible ==
    /\ \A r \in Slots :
           (slots[r].kind = "orders" /\ slots[r].pc # "cont")
               => NothingPersisted(slots[r].orderId)
    /\ \A o \in db.orders :
           \E p \in ghost.placed :
               /\ p.id = o.id
               /\ o.total_amount = SumLines(p.items)
               /\ Cardinality(ItemRowsOf(o.id)) = Len(p.items)
    /\ \A i \in db.order_items : OrderRowsOf(i.order_id) # {}
    /\ \A r \in Slots :
           (slots[r].kind = "dashboard" /\ slots[r].user.role = "consumer")
               => slots[r].first
                      <= Cardinality({p \in ghost.placed : p.buyer = slots[r].user.userId})

\* a consumer's dashboard count is taken while that consumer's order has written its
\* order row (total 0) and its first line, and does not count it
C2_Witness ==
    \E r, q \in Slots :
        /\ slots[r].kind = "orders"
        /\ slots[r].k = 2
        /\ slots[r].tx.order_items # {}
        /\ \E o \in slots[r].tx.orders : o.total_amount = 0
        /\ slots[q].kind = "dashboard"
        /\ slots[q].pc = "cont"
        /\ slots[q].user.userId = slots[r].user.userId
        /\ slots[q].first = 0

\* the item row stores what the line asked for at the catalog's price
LineStored(row, item) ==
    /\ row.quantity = item.quantity
    /\ row.unit_price = PriceOf(item)
    /\ row.total_price = PriceOf(item) * item.quantity
    /\ row.produce_id = (IF item.type = "produce" THEN item.itemId ELSE NoNumber)
    /\ row.product_id = (IF item.type = "product" THEN item.itemId ELSE NoNumber)

\* C3: for every committed order the item rows correspond one to one to the lines of the
\* request, each storing the catalog's unit price and unit price x quantity, and the
\* order's total_amount is the sum of unit price x quantity over the lines.
C3_TotalIsSumOfLines ==
    \A p \in ghost.placed :
        LET rows == ItemRowsOf(p.id)
            lines == 1..Len(p.items)
        IN  /\ OrderRowsOf(p.id) # {}
            /\ \A o \in OrderRowsOf(p.id) : o.total_amount = SumLines(p.items)
            /\ Cardinality(rows) = Len(p.items)
            /\ \E f \in [lines -> rows] :
                   /\ \A j, k \in lines : f[j] = f[k] => j = k
                   /\ \A k \in lines : LineStored(f[k], p.items[k])

\* an order of two lines with different prices and quantities has been answered 201
C3_Witness ==
    /\ resp.kind = "orders"
    /\ resp.status = 201
    /\ resp.items = <<ProduceA, ProduceB>>
    /\ resp.totalAmount = 21100
    /\ \E o \in OrderRowsOf(resp.orderId) : o.total_amount = 21100

----------------------------------------------------------------------------
(* Properties of the users table *)

\* registrations that meet in the table's constraints: one phone under two emails and
\* roles, one email under two phones, and a registration without an email
UsersBodies ==
    {Body("Asha", NULL, "9000000001", "farmer"),
     Body("Ravi", "ravi@example.com", "9000000001", "consumer"),
     Body("Ravi", "ravi@example.com", "9000000002", "consumer")}

\* the authentication requests, two of them interleaving, at one instant
UsersNext ==
    \/ BootNext
    \/ Deliver
    \/ \E r \in Slots, b \in UsersBodies : RegisterStart(r, b)
    \/ \E r \in Slots : RegisterCont(r)
    \/ \E r \in Slots, phone \in RequestOtpPhones : RequestOtpStart(r, phone)
    \/ \E r \in Slots : RequestOtpCont(r)
    \/ \E r \in Slots, b \in VerifyBodies : VerifyStart(r, b)
    \/ \E r \in Slots : VerifyInsert(r)
    \/ \E r \in Slots : VerifySelect(r)
    \/ \E r \in Slots : VerifyCont(r)

UsersSpec == Init /\ [][UsersNext]_vars

UsersDistinct ==
    \A u, v \in db.users :
        u # v => /\ u.id # v.id
                 /\ u.phone # v.phone
                 /\ (u.email # NULL => u.email # v.email)

\* a row, once in the table, stays as it is
UsersKept == \A u \in db.users : u \in db'.users

\* C11: no two user rows share an id, a phone or a non-null email, in every reachable
\* state of the authentication requests (two of them interleaving) after seeding; and no
\* step changes or removes a user row, so a user's role stays the one it was created with.
C11_UsersUniqueRoleFixed == []UsersDistinct /\ [][UsersKept]_vars

\* a verification is turned down by the table because its phone is already there, under
\* another email and role, which the row keeps
C11_Witness ==
    /\ resp.kind = "verify"
    /\ resp.status = 500
    /\ resp.g.registration
    /\ resp.g.userData.email = NULL
    /\ \E u \in db.users : u.phone = resp.body.phone /\ u.email # NULL /\ u.role = "consumer"

----------------------------------------------------------------------------
(* Properties of the OTP lifetime *)

\* C17: a verify-otp request with phone and code is answered 'OTP expired or invalid'
\* exactly when, at the moment the handler looks at the store, there is no record for
\* the phone or more than 300 s have passed since the code was issued; a request that
\* finds the record expired leaves it in the store, and no request that found its record
\* expired is answered 200.
C17_OtpExpiresAfter300s ==
    (resp.kind = "verify" /\ resp.body.phone # Missing /\ resp.body.otp # Missing)
    => /\ (resp.error = "OTP expired or invalid") <=> (resp.g.noRecord \/ resp.g.expired)
       /\ resp.g.expired
              => /\ resp.status = 400
                 /\ otpStore[resp.body.phone].present
                 /\ otpStore[resp.body.phone].expiresAt < now

\* the right code, presented after its 300 s, is refused while its record is still in
\* the store
C17_Witness ==
    /\ resp.kind = "verify"
    /\ resp.g.expired
    /\ resp.body.otp = resp.g.latest
    /\ resp.error = "OTP expired or invalid"
    /\ otpStore[resp.body.phone].present
    /\ otpStore[resp.body.phone].otp = resp.body.otp

----------------------------------------------------------------------------
(* Concurrent verifications *)

\* a client that asks for a code only when the phone has none outstanding and nothing
\* is in flight: every verification in flight then started on the phone's one
\* outstanding code
Quiet(phone) ==
    /\ ghost.latest[phone] = NoIssue
    /\ \A q \in Slots : slots[q] = Idle

RaceBody == Body("Asha", "asha@example.com", "9000000001", "farmer")

RaceVerifyBodies == [phone : {"9000000001"}, otp : Codes]

RaceNext ==
    \/ BootNext
    \/ Deliver
    \/ Quiet(RaceBody.phone) /\ RegisterStart(1, RaceBody)
    \/ RegisterCont(1)
    \/ Quiet("9000000001") /\ RequestOtpStart(1, "9000000001")
    \/ RequestOtpCont(1)
    \/ \E r \in Slots, b \in RaceVerifyBodies : VerifyStart(r, b)
    \/ \E r \in Slots : VerifyInsert(r)
    \/ \E r \in Slots : VerifySelect(r)
    \/ \E r \in Slots : VerifyCont(r)

RaceSpec == Init /\ [][RaceNext]_vars

\* C19 as stated: one issued code leads to at most one successful verification. No
\* verification succeeds for a phone for which one has succeeded and no code has been
\* issued since.
C19_OneSuccessPerCode ==
    [][(resp = NoResp /\ resp'.kind = "verify" /\ resp'.status = 200)
           => ~(/\ ghost.consumed[resp'.body.phone]
                /\ ghost.latest[resp'.body.phone] = NoIssue)]_vars

----------------------------------------------------------------------------
(* Creation of listings *)

\* C14 as stated: a POST /equipment or POST /produce request of a caller with the right
\* role whose body lacks a required field (here the name) ends with status 400 and no
\* new row.
C14_MissingFieldIs400 ==
    [][\A r \in Slots :
          (/\ slots[r].kind \in {"equipment", "produce"}
           /\ slots[r].body.name = NULL
           /\ slots'[r] = Idle)
          => /\ resp'.status = 400
             /\ db'.equipment = db.equipment
             /\ db'.produce = db.produce]_vars

----------------------------------------------------------------------------
(* Payment amounts *)

\* no amount, zero, a negative amount, a tenth of a paisa, half a paisa, 500 rupees
PayAmounts == {NoNumber, 0, -5000, 1, 5, 500000}

PayCallers == {NoHeader} \cup Bearer({ConsumerToken})

PayNext ==
    \/ BootNext
    \/ Deliver
    \/ \E r \in Slots, h \in PayCallers, amount \in PayAmounts : PaymentStart(r, h, amount)
    \/ \E r \in Slots : PaymentInsert(r)
    \/ \E r \in Slots : PaymentCont(r)

PaySpec == Init /\ [][PayNext]_vars

PaymentsPositive == \A p \in db.payments : p.amount > 0 /\ p.status = "pending"

\* a request that ends with 400 leaves the payments table as it was
PaymentRefusedStep ==
    (resp = NoResp /\ resp'.kind = "payments" /\ resp'.status = 400)
    => db'.payments = db.payments

\* C16 as stated: every payment row has an amount above zero and status 'pending', and
\* a request answered 400 inserts no row.
C16_PaymentAmountsPositive == []PaymentsPositive /\ [][PaymentRefusedStep]_vars

----------------------------------------------------------------------------
(* Listing endpoints *)

\* produce posted with no stock, with no stockKg at all, and with stock
SoldOut == ProduceBody("Okra", "vegetables", 3000, 0, "true")
Unstocked == ProduceBody("Millet", "grains", 2500, NoNumber, Missing)
Wheat == ProduceBody("Wheat", "grains", 2200, 40, Missing)

ListProduce == {SoldOut, Unstocked, Wheat}

\* default paging, second page of one, a negative limit, page 0
ListPaging == {<<1, 10>>, <<2, 1>>, <<1, -1>>, <<0, 10>>}

ProduceQueries ==
    {ProduceQuery(pl[1], pl[2], c, o) :
        pl \in ListPaging, c \in {Missing, "grains"}, o \in {Missing, "true"}}

EquipmentQueries ==
    {EquipmentQuery(pl[1], pl[2], t, w) :
        pl \in ListPaging, t \in {Missing, "tractor"}, w \in {Missing, "pune"}}

\* farmers and providers post listings while anyone reads the lists
ListNext ==
    \/ BootNext
    \/ Deliver
    \/ \E b \in ListProduce : ProduceStart(1, Authorization(<<FarmerToken>>), b)
    \/ ProduceInsert(1)
    \/ ProduceCont(1)
    \/ \E b \in EquipmentBodies : EquipmentStart(1, Authorization(<<ProviderToken>>), b)
    \/ EquipmentInsert(1)
    \/ EquipmentCont(1)
    \/ \E r \in Slots, q \in ProduceQueries : ProduceListStart(r, q)
    \/ \E r \in Slots : ProduceListCont(r)
    \/ \E r \in Slots, q \in EquipmentQueries : EquipmentListStart(r, q)
    \/ \E r \in Slots : EquipmentListCont(r)

ListSpec == Init /\ [][ListNext]_vars

\* C12: every row in a 200 response of GET /produce has stock_kg above zero, and every
\* row in a 200 response of GET /equipment has availability_status 'available', whatever
\* category, organic, type, location, page and limit the query carries.
C12_ListsKeepDefaultFilter ==
    /\ (resp.kind = "produce-list" /\ resp.status = 200)
       => \A row \in resp.rows : row.stock_kg # NoNumber /\ row.stock_kg > 0
    /\ (resp.kind = "equipment-list" /\ resp.status = 200)
       => \A row \in resp.rows : row.availability_status = "available"

\* a filtered, paged produce list comes back with a row while the table holds, in the
\* category asked for, a row without stock and a row with NULL stock
C12_Witness ==
    /\ resp.kind = "produce-list"
    /\ resp.status = 200
    /\ resp.q.category = "grains"
    /\ resp.q.limit # 10
    /\ resp.rows # {}
    /\ \E row \in db.produce : row.stock_kg = 0 /\ row.farmer_id \in UserIds(db.users)
    /\ \E row \in db.produce : row.stock_kg = NoNumber /\ row.category = "grains"

----------------------------------------------------------------------------
(* Bootstrap *)

\* the process is started, killed (also in the middle of seeding) and started again,
\* while users register between the restarts
RestartNext ==
    \/ BootNext
    \/ Restart
    \/ \E k \in 1..(Len(SeedRoster) - 1) : seedDataKilled(k)
    \/ Deliver
    \/ RegisterStart(1, RaceBody)
    \/ RegisterCont(1)
    \/ \E b \in RaceVerifyBodies : VerifyStart(1, b)
    \/ VerifyInsert(1)
    \/ VerifyCont(1)

RestartSpec == Init /\ [][RestartNext]_vars

\* the five users of the roster and nobody else
RosterComplete(users) ==
    /\ Cardinality(users) = Len(SeedRoster)
    /\ \A i \in 1..Len(SeedRoster) :
          \E u \in users : /\ u.name = SeedRoster[i].name
                            /\ u.phone = SeedRoster[i].phone
                            /\ u.role = SeedRoster[i].role
                            /\ u.location = SeedRoster[i].location
                            /\ u.is_verified

\* a run of seedData from its COUNT to its end
SeedStep ==
    (phase = "schema" /\ phase' = "seeded")
    => IF Cardinality(db.users) = 0
       THEN /\ RosterComplete(db'.users)
            /\ IF variant = "sqlite"
               THEN /\ {e.name : e \in db'.equipment} =
                           {"John Deere 5310 Tractor", "Kubota Combine Harvester"}
                    /\ {p.name : p \in db'.produce} =
                           {"Fresh Organic Tomatoes", "Premium Basmati Rice"}
                    /\ \A e \in db'.equipment :
                          \E u \in db'.users : u.phone = "9876543211" /\ u.id = e.owner_id
                    /\ \A p \in db'.produce :
                          \E u \in db'.users : u.phone = "9876543210" /\ u.id = p.farmer_id
               ELSE db'.equipment = db.equipment /\ db'.produce = db.produce
       ELSE db' = db

NoSeedTwice ==
    /\ \A i \in 1..Len(SeedRoster) :
          Cardinality({u \in db.users : u.phone = SeedRoster[i].phone}) <= 1
    /\ \A e1, e2 \in db.equipment : e1.name = e2.name => e1 = e2
    /\ \A p1, p2 \in db.produce : p1.name = p2.name => p1 = p2

\* C13: a run of seedData that finds the users table empty leaves the complete roster
\* (in the SQLite variant also the two equipment rows of Priya Sharma and the two
\* produce rows of Rajesh Kumar); a run that finds any user row changes nothing; and
\* however often the process is restarted, no seed row exists twice.
C13_SeedOnlyWhenEmpty == [][SeedStep]_vars /\ []NoSeedTwice

\* the process has been restarted after a user registered: seeding was skipped, the
\* roster is there once, next to the new user
C13_Witness ==
    /\ phase = "seeded"
    /\ Cardinality(db.users) = Len(SeedRoster) + 1
    /\ \A i \in 1..Len(SeedRoster) :
          Cardinality({u \in db.users : u.phone = SeedRoster[i].phone}) = 1

\* startup with statements of initDB and seedData failing, then registrations
BootFaultNext ==
    \/ BootNext
    \/ initDBFails
    \/ \E k \in 0..(Len(SeedRoster) - 1) : seedDataFails(k)
    \/ Deliver
    \/ \E b \in RegisterBodies : RegisterStart(1, b)
    \/ RegisterCont(1)

BootFaultSpec == Init /\ [][BootFaultNext]_vars

HalfSeeded ==
    \E i, j \in 1..Len(SeedRoster) :
        /\ \E u \in db.users : u.phone = SeedRoster[i].phone
        /\ \A u \in db.users : u.phone # SeedRoster[j].phone

\* C18 as stated: whenever the listener is bound, and so whenever a request is being
\* handled, the schema exists and the users table is not half-seeded.
C18_ServesOnlyWhenReady ==
    (phase = "listening" \/ resp # NoResp \/ \E r \in Slots : slots[r] # Idle)
    => db.schema /\ ~HalfSeeded

----------------------------------------------------------------------------
(* Orders while statements fail *)

OrderFaults ==
    \/ \E r \in Slots : OrderConnectFails(r)
    \/ \E r \in Slots : Leaked < MaxLeaks /\ OrderBeginFails(r)
    \/ \E r \in Slots : OrderQueryFails(r)
    \/ \E r \in Slots : OrderRollbackFails(r)

\* a farmer posts produce and buyers place orders, two requests at a time, while any
\* statement of the order handler may be rejected
OrderFaultNext ==
    \/ BootNext \/ Deliver
    \/ \E b \in {Tomatoes, Rice} : ProduceStart(1, Authorization(<<FarmerToken>>), b)
    \/ ProduceInsert(1)
    \/ ProduceCont(1)
    \/ \E r \in Slots, h \in OrderBuyers, items \in OrderBodies : OrderStart(r, h, items)
    \/ OrderStep
    \/ OrderFaults

OrderFaultSpec == Init /\ [][OrderFaultNext]_vars

\* what the claim counts as a failure of the attempt, read off its input and its history
OrderFailed ==
    \/ resp.fault # Missing
    \/ resp.items = <<>>
    \/ resp.g.userId \notin UserIds(db.users)
    \/ \E k \in 1..Len(resp.items) :
          \/ MissingRef(resp.items[k])
          \/ resp.items[k].type \notin {"produce", "product"}

\* C15: an order attempt of an authenticated caller in which a statement was rejected
\* (INSERT of the order, price lookup, INSERT of a line, UPDATE of the total; also
\* pool.connect, BEGIN or ROLLBACK), whose item list is empty, whose buyer is no user,
\* or one of whose lines names a missing catalog row or a type other than produce and
\* product, is answered 500 'Internal server error' with a body that carries no
\* orderId; and after any 500 no order row and no item row of the attempt is in the
\* database.
C15_FailureRollsBack ==
    (resp.kind = "orders" /\ resp.g.token = "valid")
    => /\ OrderFailed => resp.status = 500
       /\ resp.status = 500
              => /\ resp.error = "Internal server error"
                 /\ DOMAIN resp.json = {"error"}
                 /\ NothingPersisted(resp.orderId)

\* the UPDATE of the total is rejected after the order row and both lines were
\* inserted: the attempt is rolled back and answered 500
C15_Witness ==
    /\ resp.kind = "orders"
    /\ resp.status = 500
    /\ resp.fault = "update"
    /\ resp.orderId # 0
    /\ Len(resp.items) = 2
    /\ \A k \in 1..2 : ~MissingRef(resp.items[k])
    /\ NothingPersisted(resp.orderId)

\* C20 as stated: no client stays checked out once its handler is done. Every client
\* the pool has handed out is held by an order request still in flight.
C20_ClientsReleased == Leaked = 0

----------------------------------------------------------------------------
(* Properties of the order lines *)

\* the row refers to a produce row or to a product row, not to both and not to neither
OneRef(row) == (row.produce_id # NoNumber) # (row.product_id # NoNumber)

\* a line of the request that is neither produce nor product
UntypedLine(items) == \E k \in 1..Len(items) : items[k].type \notin {"produce", "product"}

\* C22: every committed order_items row has exactly one of produce_id / product_id set
\* and a unit price; an order with a line whose type is neither 'produce' nor 'product'
\* is never committed: it is answered 500 and none of its rows is in the tables.
C22_ItemHasOneRef ==
    /\ \A i \in db.order_items : OneRef(i) /\ i.unit_price # NoNumber
    /\ \A p \in ghost.placed : ~UntypedLine(p.items)
    /\ (resp.kind = "orders" /\ resp.g.token = "valid" /\ UntypedLine(resp.items))
           => resp.status = 500 /\ NothingPersisted(resp.orderId)

\* an order whose second line is of an unknown type is answered 500 after its order row
\* and first line had been written, while the lines of an earlier order are committed
C22_Witness ==
    /\ resp.kind = "orders"
    /\ resp.status = 500
    /\ resp.orderId # 0
    /\ UntypedLine(resp.items)
    /\ db.order_items # {}

----------------------------------------------------------------------------
(* Where user rows come from *)

\* the row carries the phone and the name, email, role and location of the pending
\* registration, and is marked verified
RowOfRegistration(u, phone, userData) ==
    /\ userData.present
    /\ u.is_verified
    /\ u.phone = phone
    /\ u.name = userData.name
    /\ u.email = userData.email
    /\ u.role = userData.role
    /\ u.location = userData.location

\* the step is the INSERT of the verify-otp request in slot r, which had matched an
\* unexpired code for u's phone when it read the store
InsertOfVerify(u, r) ==
    /\ slots[r].kind = "verify" /\ slots[r].pc = "insert"
    /\ slots'[r].kind = "verify" /\ slots'[r].pc = "cont"
    /\ slots'[r].user = u
    /\ slots[r].body.phone = u.phone
    /\ ~(slots[r].g.noRecord \/ slots[r].g.expired \/ slots[r].g.wrong)

SeededRow(u) == phase = "schema" /\ phase' = "seeded" /\ u \in SeedUsers

\* a row enters the users table by seeding or by such an INSERT, and a registration
\* pending for its phone at that moment is the one the row was made from
UserRowOfLatest ==
    \A u \in db'.users \ db.users :
        \/ SeededRow(u)
        \/ /\ \E r \in Slots : InsertOfVerify(u, r)
           /\ (otpStore[u.phone].present /\ otpStore[u.phone].userData.present)
                  => RowOfRegistration(u, u.phone, otpStore[u.phone].userData)

\* a row enters the users table by seeding or by such an INSERT, and it is made from the
\* registration that was pending for its phone when the handler read the store
UserRowOfMatched ==
    \A u \in db'.users \ db.users :
        \/ SeededRow(u)
        \/ \E r \in Slots :
               /\ InsertOfVerify(u, r)
               /\ slots[r].g.registration
               /\ RowOfRegistration(u, u.phone, slots[r].g.userData)

\* a token names a row of the users table, with its phone and role
TokenForUser ==
    (resp.kind = "verify" /\ resp.token.present)
    => \E u \in db.users :
           /\ u.id = resp.token.userId
           /\ u.phone = resp.token.phone
           /\ u.role = resp.token.role

\* C23 as stated: a user row is created only by seeding or by a verify-otp that matched
\* an unexpired code for a registration pending on the same phone; the row is marked
\* verified and carries the name, email, role and location of the latest registration
\* pending for that phone; every token is issued for a user row that exists.
C23_UserRowsFromLatestRegistration == [][UserRowOfLatest]_vars /\ []TokenForUser

\* C23 amended: the row carries the name, email, role and location of the registration
\* that was pending for the phone when the verification matched its code; a registration
\* accepted for the phone between that moment and the INSERT does not change the row.
\* The other parts stand: rows come from seeding or from such a verification only, they
\* are marked verified, and every token is issued for a user row that exists.
C23_UserRowsFromMatchedRegistration == [][UserRowOfMatched]_vars /\ []TokenForUser

\* a verification has inserted the row of the registration it matched while the store
\* already holds a later registration for the phone, under another name and role
C23_Witness ==
    \E r \in Slots :
        /\ slots[r].kind = "verify" /\ slots[r].pc = "cont" /\ slots[r].created
        /\ slots[r].user \in db.users
        /\ otpStore[slots[r].body.phone].present
        /\ otpStore[slots[r].body.phone].userData.present
        /\ otpStore[slots[r].body.phone].userData.name # slots[r].user.name
        /\ otpStore[slots[r].body.phone].userData.role # slots[r].user.role

----------------------------------------------------------------------------
(* Verifications whose database calls may be rejected *)

\* one registration, logins for its phone and verifications with every code, two of them
\* interleaving; each statement a verification awaits may be rejected
AuthFaultNext ==
    \/ BootNext
    \/ Deliver
    \/ RegisterStart(1, RaceBody)
    \/ RegisterCont(1)
    \/ RequestOtpStart(1, RaceBody.phone)
    \/ RequestOtpCont(1)
    \/ \E r \in Slots, b \in RaceVerifyBodies : VerifyStart(r, b)
    \/ \E r \in Slots : VerifyInsert(r)
    \/ \E r \in Slots : VerifySelect(r)
    \/ \E r \in Slots : VerifyCont(r)
    \/ \E r \in Slots : VerifyQueryFails(r)
    \/ \E r \in Slots : VerifyReadBackFails(r)

AuthFaultSpec == Init /\ [][AuthFaultNext]_vars

\* the record of a phone changes only when a verification for that phone succeeds (and
\* then it is gone) or when a code is issued for that phone (and then there is one)
OtpRemovedOrReplaced ==
    \A p \in Phones :
        otpStore'[p] # otpStore[p]
        => \/ /\ resp'.kind = "verify" /\ resp'.status = 200 /\ resp'.body.phone = p
              /\ ~otpStore'[p].present
           \/ IssuedFor(p) /\ otpStore'[p].present

\* the step that answers a verification with a failure changes neither store
VerifyFailureFrame ==
    (resp = NoResp /\ resp'.kind = "verify" /\ resp'.status # 200)
    => otpStore' = otpStore /\ db'.users = db.users

\* a verification that has inserted its row goes on to succeed
InsertedWillSucceed ==
    \A r \in Slots :
        (slots[r].kind = "verify" /\ slots[r].created) => slots[r].user \in db.users

\* C21 as stated: an OTP record leaves the store only through a successful verification
\* or an overwrite by a newer request for its phone, and a verify-otp that fails (wrong
\* or expired code, login without a user, a database error while the user is created)
\* leaves the OTP store and the users table as they were.
C21_FailedVerifyChangesNothing ==
    /\ [][OtpRemovedOrReplaced /\ VerifyFailureFrame]_vars
    /\ []InsertedWillSucceed

----------------------------------------------------------------------------
(* Every request is answered *)

\* the requests of the order handler with every statement allowed to be rejected, BEGIN
\* as often as the database likes
PoolNext ==
    \/ OrderFaultNext
    \/ \E r \in Slots : OrderBeginFails(r)

PoolSpec == Init /\ [][PoolNext]_vars

ErrorStatuses == {400, 401, 403, 404, 500}

\* a success payload, or a JSON error {error: <string>} with one of the error statuses;
\* 500 always reads 'Internal server error'; a rejected statement of an order ends in 500
ResponseOk ==
    resp # NoResp
    => /\ \/ resp.status \in {200, 201} /\ resp.error = Missing
          \/ resp.status \in ErrorStatuses /\ resp.error # Missing
       /\ resp.status = 500 => resp.error = "Internal server error"
       /\ (resp.kind = "orders" /\ resp.fault # Missing) => resp.status = 500

\* a handler ends in the step that sends its response, and a step sends one response
AnsweredOnce ==
    LET ended == {r \in Slots : slots[r] # Idle /\ slots'[r] = Idle} IN
    /\ ended # {} => (resp = NoResp /\ resp' # NoResp)
    /\ Cardinality(ended) <= 1

\* how far a handler has come: its awaits in the order of the code, the lines of an
\* order one after the other
Progress(sl) ==
    IF sl.pc \in {"await", "first", "insert", "select", "connect"} THEN 1
    ELSE IF sl.pc \in {"second", "begin"} THEN 2
    ELSE IF sl.pc = "insert-order" THEN 3
    ELSE IF sl.pc = "lookup" THEN 2 * sl.k + 2
    ELSE IF sl.pc = "insert-item" THEN 2 * sl.k + 3
    ELSE IF sl.pc = "update" THEN 96
    ELSE IF sl.pc = "commit" THEN 97
    ELSE IF sl.pc = "rollback" THEN 98
    ELSE 99

\* no handler goes back to a statement it has sent: every step of a request in flight
\* takes it further
NoRetry ==
    \A r \in Slots :
        (slots[r] # Idle /\ slots'[r] # Idle /\ slots'[r] # slots[r])
        => /\ slots'[r].kind = slots[r].kind
           /\ Progress(slots'[r]) > Progress(slots[r])

\* the request waits in pool.connect() while every client of the pool is checked out and
\* held by no handler: no step of any request can ever hand one back
Stuck(r) ==
    /\ slots[r].kind = "orders"
    /\ slots[r].pc = "connect"
    /\ Leaked = PoolMax

----------------------------------------------------------------------------
(* The whole program: every request, restart and failure above *)

Next ==
    \/ AuthNext \/ ApiNext \/ OrderNext
    \/ UsersNext \/ RaceNext \/ ListNext \/ PayNext
    \/ RestartNext \/ BootFaultNext \/ OrderFaultNext
    \/ AuthFaultNext \/ PoolNext

Spec == Init /\ [][Next]_vars

====
